---- MODULE Spec2Model ----
(***************************************************************************)
(* A model of macos-fingerprint's core: the collector registry and its     *)
(* sequential / thread-pool execution (collectors/base.py), fingerprint    *)
(* assembly with whitelist / blacklist filtering (core/fingerprint.py),    *)
(* the structural diff engine (core/comparison.py), redaction and          *)
(* encryption (utils/crypto.py) and storage (core/storage.py).             *)
(***************************************************************************)
EXTENDS Integers, Sequences, FiniteSets, TLC

VARIABLES
    host,        \* what the machine answers to each external command
    heap,        \* storage cell -> the _collectors dict kept there, in insertion order
    lastOp,      \* the registry operation performed last (observer)
    pc,          \* position of the caller of collect_all / create_fingerprint
    call,        \* the arguments of the call in progress
    items,       \* collect_all's snapshot list(self._collectors.items())
    submitted,   \* how many tasks the main thread has handed to the pool
    task,        \* per item: new / queued / called / finished / harvested
    future,      \* per item: what its Future holds once the worker is done
    results,     \* collect_all's results dict
    events,      \* progress-callback and collect() invocations, in order (observer)
    ret,         \* what the call returned or raised
    prev,        \* the last completed sequential run (observer)
    cmpIn,       \* arguments of the comparison call
    cmpOut,      \* its result
    disk         \* the fingerprint file: absent, or its content

regVars == <<host, heap, lastOp, pc, call, items, submitted, task, future,
             results, events, ret, prev>>
cmpVars == <<cmpIn, cmpOut, disk>>
vars == <<host, heap, lastOp, pc, call, items, submitted, task, future,
          results, events, ret, prev, cmpIn, cmpOut, disk>>

(***************************************************************************)
(* JSON-like values: a Python value is a pair <<type tag, payload>>.       *)
(***************************************************************************)
JStr(s) == <<"str", s>>
JInt(n) == <<"int", n>>
JList(l) == <<"list", l>>
JDict(f) == <<"dict", f>>
JNone == <<"none", "None">>

IsStr(v) == v[1] = "str"
IsInt(v) == v[1] = "int"
IsList(v) == v[1] = "list"
IsDict(v) == v[1] = "dict"

Range(s) == {s[i] : i \in DOMAIN s}

\* The empty dict, and a dict built from a set of keys.
EmptyDict == <<>>
MapSeq(F(_), s) == [i \in DOMAIN s |-> F(s[i])]

\* The characters of the strings whose characters the program looks at.
Chars(s) ==
    CASE s = "" -> <<>>
      [] s = "a" -> <<"a">>
      [] s = "b" -> <<"b">>
      [] s = "1" -> <<"1">>
      [] s = "[]" -> <<"[", "]">>
      [] s = "#c" -> <<"#", "c">>
      [] s = "None" -> <<"N", "o", "n", "e">>
      [] s = "error" -> <<"e", "r", "r", "o", "r">>
      [] s = "a\"\\" -> <<"a", "\"", "\\">>
      [] s = "sha3:a" -> <<"8", "0", "sha3:a">>
      [] s = "sha3:b" -> <<"b", "0", "sha3:b">>
      [] s = "sha3:1" -> <<"6", "7", "sha3:1">>
      [] s = "sha3:error" -> <<"a", "5", "sha3:error">>
      [] s = "x..." -> <<"x...">>
      [] s = "[..." -> <<"[...">>
      [] s = "_integrity_hash" ->
            <<"_", "i", "n", "t", "e", "g", "r", "i", "t", "y", "_", "h", "a", "s", "h">>

\* s.startswith(prefix) for a one-character prefix
startswith(s, prefix) == Chars(s) # <<>> /\ Head(Chars(s)) = prefix


(***************************************************************************)
(* utils/commands.py: run_command.  The host answers a command with the    *)
(* way subprocess.run ends; the stripped stdout is kept as its lines.      *)
(***************************************************************************)
NoOutput == <<"none", "None">>

AnswerKinds == {"ok", "CalledProcessError", "TimeoutExpired", "FileNotFoundError",
                "PermissionError", "ValueError"}

run_command(answer) ==
    IF answer.kind = "ok" THEN <<"text", answer.stdout>> ELSE NoOutput

\* `x.split('\n') if x else []`: None and the empty string both give [].
SplitLines(out) ==
    IF out = NoOutput \/ out[2] = <<>> THEN JList(<<>>)
    ELSE JList(MapSeq(JStr, out[2]))

Commands == {"ls_applications", "ls_user_applications", "kextstat"}

Ok(lines) == [kind |-> "ok", stdout |-> lines]
Fails(kind) == [kind |-> kind, stdout |-> <<>>]

\* Hosts the model runs on: every command works; the commands fail each in its
\* own way (missing binary, non-zero exit, timeout); a mix.
HostUp ==
    [ls_applications |-> Ok(<<"App1.app", "App2.app">>),
     ls_user_applications |-> Ok(<<"UserApp.app">>),
     kextstat |-> Ok(<<"com.apple.kpi.bsd">>)]
HostDown ==
    [ls_applications |-> Fails("FileNotFoundError"),
     ls_user_applications |-> Fails("CalledProcessError"),
     kextstat |-> Fails("TimeoutExpired")]
HostMixed ==
    [ls_applications |-> Ok(<<"App1.app">>),
     ls_user_applications |-> Fails("ValueError"),
     kextstat |-> Ok(<<>>)]
Hosts == {HostUp, HostDown, HostMixed}

(***************************************************************************)
(* collectors/base.py: CollectorResult, BaseCollector.                     *)
(***************************************************************************)
CollectorResult(success, data, error, name) ==
    [success |-> success, data |-> data, error |-> error, collector_name |-> name]

\* A collector instance: its name, its class, and which instance it is.
Collector(name, cls, id) == [name |-> name, cls |-> cls, id |-> id]

BuiltinClasses == {"InstalledAppsCollector", "KernelExtensionsCollector"}
\* Collectors written by a caller: one raises an ordinary error, one is
\* interrupted (KeyboardInterrupt derives from BaseException only).
CustomClasses == {"BrokenCollector", "InterruptedCollector"}

Returned(r) == <<"return", r>>
Raised(cls, msg) == <<"raise", [cls |-> cls, msg |-> msg]>>
IsReturn(o) == o[1] = "return"

\* Python's `except Exception` catches everything but the BaseException-only
\* classes.
BaseOnly == {"KeyboardInterrupt", "SystemExit", "GeneratorExit"}
IsException(exc) == exc.cls \notin BaseOnly

\* collect() of each class.
collect_failing_on_no_output(c, h) ==
    IF c.cls = "InstalledAppsCollector" THEN
        LET system_apps == run_command(h["ls_applications"])
            user_apps == run_command(h["ls_user_applications"])
        IN  IF system_apps = NoOutput \/ user_apps = NoOutput
            THEN Returned(CollectorResult(FALSE, JNone, JStr("command failed"), c.name))
            ELSE Returned(CollectorResult(TRUE,
                    JDict([system |-> SplitLines(system_apps),
                           user |-> SplitLines(user_apps)]), JNone, c.name))
    ELSE IF c.cls = "KernelExtensionsCollector" THEN
        LET result == run_command(h["kextstat"])
        IN  IF result = NoOutput
            THEN Returned(CollectorResult(FALSE, JNone, JStr("command failed"), c.name))
            ELSE Returned(CollectorResult(TRUE, SplitLines(result), JNone, c.name))
    ELSE IF c.cls = "BrokenCollector" THEN Raised("RuntimeError", "boom")
    ELSE Raised("KeyboardInterrupt", "")

collect(c, h) ==
    IF c.cls = "InstalledAppsCollector" THEN
        LET system_apps == run_command(h["ls_applications"])
            user_apps == run_command(h["ls_user_applications"])
        IN  Returned(CollectorResult(TRUE,
                JDict([system |-> SplitLines(system_apps),
                       user |-> SplitLines(user_apps)]), JNone, c.name))
    ELSE IF c.cls = "KernelExtensionsCollector" THEN
        LET result == run_command(h["kextstat"])
        IN  Returned(CollectorResult(TRUE, SplitLines(result), JNone, c.name))
    ELSE IF c.cls = "BrokenCollector" THEN Raised("RuntimeError", "boom")
    ELSE Raised("KeyboardInterrupt", "")

safe_collect_wrong_name(c, h) ==
    LET o == collect(c, h)
    IN  IF IsReturn(o) THEN o
        ELSE IF IsException(o[2])
             THEN Returned(CollectorResult(FALSE, JNone, JStr(o[2].cls), c.name))
             ELSE o

safe_collect(c, h) ==
    LET o == collect(c, h)
    IN  IF IsReturn(o) THEN o
        ELSE IF IsException(o[2])
             THEN Returned(CollectorResult(FALSE, JNone, JStr(o[2].msg), c.name))
             ELSE o

(***************************************************************************)
(* collectors/base.py: CollectorRegistry.  A dict is a sequence of items   *)
(* with distinct keys, in insertion order.                                 *)
(***************************************************************************)
None == <<"none", "None">>

\* The registry instances of the model: the module-level default_registry, one
\* made by a caller, and the two most recent ones create_fingerprint built for
\* itself (registry=None).
UserRegs == {"default_registry", "reg_a"}
LocalRegs == {"local", "local_prev"}
RegIds == UserRegs \cup LocalRegs

\* Where an instance keeps _collectors: __init__ binds a dict of its own.
CellShared(r) == "default_registry"
Cell(r) == r

Names(d) == {d[i].name : i \in DOMAIN d}
NameList(d) == [i \in DOMAIN d |-> d[i].name]
IndexOf(d, name) == CHOOSE i \in DOMAIN d : d[i].name = name
Remove(d, name) == SelectSeq(d, LAMBDA c : c.name # name)

\* register: self._collectors[collector.name] = collector
dict_set_appending(d, c) == Append(d, c)
dict_set(d, c) ==
    IF c.name \in Names(d) THEN [d EXCEPT ![IndexOf(d, c.name)] = c]
    ELSE Append(d, c)

\* unregister: if name in self._collectors: del self._collectors[name]
dict_del(d, name) == IF name \in Names(d) THEN Remove(d, name) ELSE d

\* dict.get(name)
Lookup(d, name) == IF name \in Names(d) THEN d[IndexOf(d, name)] ELSE None

get_collector(r, name) == Lookup(heap[Cell(r)], name)

get_all_collectors(r) == heap[Cell(r)]

OpRec(op, r, arg, pre) == [op |-> op, reg |-> r, arg |-> arg, pre |-> pre]
NoOp == OpRec("none", "none", None, <<>>)

runVars == <<pc, call, items, submitted, task, future, results, events, ret, prev>>

register(r, c) ==
    /\ pc = "idle"
    /\ heap' = [heap EXCEPT ![Cell(r)] = dict_set(@, c)]
    /\ lastOp' = OpRec("register", r, c, heap[Cell(r)])
    /\ UNCHANGED <<host, runVars, cmpVars>>

unregister(r, name) ==
    /\ pc = "idle"
    /\ heap' = [heap EXCEPT ![Cell(r)] = dict_del(@, name)]
    /\ lastOp' = OpRec("unregister", r, JStr(name), heap[Cell(r)])
    /\ UNCHANGED <<host, runVars, cmpVars>>

clear(r) ==
    /\ pc = "idle"
    /\ heap' = [heap EXCEPT ![Cell(r)] = <<>>]
    /\ lastOp' = OpRec("clear", r, None, heap[Cell(r)])
    /\ UNCHANGED <<host, runVars, cmpVars>>

(***************************************************************************)
(* utils/crypto.py: redaction of the sensitive collectors' data.           *)
(***************************************************************************)
Falsy(v) == v \in {JStr(""), JInt(0), JNone, JList(<<>>), JDict(<<>>)}

\* hash_sensitive_value: "" for an empty value, else the hex digest (kept
\* symbolic: one digest per input, never the input itself).
hash_sensitive_value(v) ==
    IF Falsy(v) THEN JStr("")
    ELSE IF IsStr(v) THEN JStr("sha3:" \o v[2])
    ELSE <<"error", "AttributeError">>

HashLines(l) == JList([i \in DOMAIN l[2] |->
                    IF Falsy(l[2][i]) THEN JStr("") ELSE hash_sensitive_value(l[2][i])])

HashListField(f, k) ==
    IF k \in DOMAIN f /\ IsList(f[k]) THEN [f EXCEPT ![k] = HashLines(@)] ELSE f

hash_network_config(f) ==
    LET g == IF "ip_addresses" \in DOMAIN f /\ IsDict(f["ip_addresses"])
             THEN [f EXCEPT !["ip_addresses"] =
                     JDict([s \in DOMAIN @[2] |-> hash_sensitive_value(@[2][s])])]
             ELSE f
    IN  HashListField(HashListField(HashListField(g, "arp_cache"),
                                    "routing_table"), "wifi_networks")

hash_ssh_config(f) == HashListField(f, "known_hosts")

RECURSIVE KeySeq(_)
KeySeq(S) == IF S = {} THEN <<>>
             ELSE LET k == CHOOSE x \in S : TRUE IN <<k>> \o KeySeq(S \ {k})

\* Python iterates a list's elements and a dict's keys.
hash_hosts_file(v) ==
    LET HashLine(line) == IF ~Falsy(line) /\ ~(IsStr(line) /\ startswith(line[2], "#"))
                          THEN hash_sensitive_value(line) ELSE line
    IN  IF IsList(v) THEN JList(MapSeq(HashLine, v[2]))
        ELSE JList(MapSeq(HashLine, MapSeq(JStr, KeySeq(DOMAIN v[2]))))

HashCollector(name, v) ==
    IF ~(IsDict(v) \/ IsList(v)) THEN v
    ELSE IF name = "NetworkConfigCollector" /\ IsDict(v) THEN JDict(hash_network_config(v[2]))
    ELSE IF name = "SSHConfigCollector" /\ IsDict(v) THEN JDict(hash_ssh_config(v[2]))
    ELSE IF name = "HostsFileCollector" THEN hash_hosts_file(v)
    ELSE v

hash_fingerprint_data(doc) ==
    IF ~("collectors" \in DOMAIN doc[2] /\ IsDict(doc[2]["collectors"])) THEN doc
    ELSE JDict([doc[2] EXCEPT !["collectors"] =
                  JDict([n \in DOMAIN @[2] |-> HashCollector(n, @[2][n])])])

(***************************************************************************)
(* core/fingerprint.py: register_all_collectors and create_fingerprint.    *)
(***************************************************************************)
\* The collectors register_all_collectors makes, in its order (the first of
\* each family the model covers).
ALL_COLLECTORS ==
    << Collector("InstalledAppsCollector", "InstalledAppsCollector", 0),
       Collector("KernelExtensionsCollector", "KernelExtensionsCollector", 0) >>

RECURSIVE RegisterSeq(_, _)
RegisterSeq(d, cs) ==
    IF cs = <<>> THEN d ELSE RegisterSeq(dict_set(d, Head(cs)), Tail(cs))

register_all_collectors(d) == RegisterSeq(d, ALL_COLLECTORS)

RECURSIVE UnregisterAll(_, _)
UnregisterAll(d, S) ==
    IF S = {} THEN d
    ELSE LET n == CHOOSE x \in S : TRUE
         IN  UnregisterAll(dict_del(d, n), S \ {n})

\* `if collectors:` keeps only the named ones; `if exclude:` drops the named ones.
ApplyWhitelist(d, W) ==
    IF W = {} THEN d ELSE UnregisterAll(d, {n \in Names(d) : n \notin W})
ApplyBlacklist(d, B) == UnregisterAll(d, B)

FilterExcludeAsInclude(d, W, B) ==
    IF W = {} THEN ApplyBlacklist(d, B) ELSE ApplyWhitelist(d, W \cup B)
Filter(d, W, B) == ApplyBlacklist(ApplyWhitelist(d, W), B)

BuildFingerprint(res, hash_sensitive) ==
    LET fp == JDict([timestamp |-> JStr("now"),
                     collectors |-> JDict([n \in DOMAIN res |->
                        IF res[n].success THEN res[n].data
                        ELSE JDict([error |-> res[n].error])])])
    IN  IF hash_sensitive THEN hash_fingerprint_data(fp) ELSE fp

(***************************************************************************)
(* The calls: collect_all on a registry, and create_fingerprint, which     *)
(* filters the registry it is given (or one it builds) and then collects.  *)
(***************************************************************************)
CallRec(fn, given, reg, W, B, hs, parallel, k, cb, pre) ==
    [fn |-> fn, given |-> given, reg |-> reg, collectors |-> W, exclude |-> B,
     hash_sensitive |-> hs, parallel |-> parallel, max_workers |-> k,
     progress_callback |-> cb, pre |-> pre]
NoCall == CallRec("none", "none", "none", {}, {}, FALSE, FALSE, 0, "none", <<>>)
NoPrev == [items |-> <<>>, results |-> <<>>, valid |-> FALSE]

total_of_registry == Len(heap[Cell(call.reg)])
total == Len(items)

\* collect_all, lines 161-162 and 176: the snapshot and the empty results.
StartRun(d, parallel) ==
    /\ items' = d
    /\ submitted' = 0
    /\ task' = [i \in DOMAIN d |-> IF parallel THEN "new" ELSE "queued"]
    /\ future' = [i \in DOMAIN d |-> None]
    /\ results' = <<>>
    /\ events' = <<>>
    /\ ret' = None
    /\ pc' = IF parallel THEN "par" ELSE "seq"

collect_all(r, parallel, k, cb) ==
    /\ pc = "idle"
    /\ StartRun(get_all_collectors(r), parallel)
    /\ call' = CallRec("collect_all", r, r, {}, {}, FALSE, parallel, k, cb,
                       get_all_collectors(r))
    /\ lastOp' = OpRec("collect_all", r, None, get_all_collectors(r))
    /\ UNCHANGED <<host, heap, prev, cmpVars>>

\* registry=None: a new CollectorRegistry, filled by register_all_collectors.
create_fingerprint(given, W, B, hs, cb, parallel, k) ==
    /\ pc = "idle"
    /\ LET reg == IF given = "None" THEN "local" ELSE given
           d0 == IF given = "None" THEN register_all_collectors(<<>>)
                 ELSE heap[Cell(given)]
           d == Filter(d0, W, B)
       IN  /\ heap' = IF given = "None"
                      THEN [heap EXCEPT ![Cell("local_prev")] = heap[Cell("local")],
                                        ![Cell("local")] = d]
                      ELSE [heap EXCEPT ![Cell(given)] = d]
           /\ StartRun(d, parallel)
           /\ call' = CallRec("create_fingerprint", given, reg, W, B, hs, parallel, k,
                              cb, d0)
           /\ lastOp' = OpRec("create_fingerprint", reg, None, d0)
    /\ UNCHANGED <<host, prev, cmpVars>>

CbEvent_one_based(i) == <<"cb", items[i].name, i, total>>
CbEvent(i) == <<"cb", items[i].name, i - 1, total>>
CollectEvent(i) == <<"collect", items[i].name>>

\* The value the call hands back once collect_all has returned.
ReturnValue ==
    IF call.fn = "create_fingerprint"
    THEN Returned(BuildFingerprint(results, call.hash_sensitive))
    ELSE Returned(results)

(***************************************************************************)
(* collect_all, sequential mode (lines 164-173).                           *)
(***************************************************************************)
Current == CHOOSE i \in DOMAIN items :
              task[i] # "harvested" /\ \A j \in 1..(i - 1) : task[j] = "harvested"

SeqRunning == pc = "seq" /\ \E i \in DOMAIN items : task[i] # "harvested"

\* What an invocation of the progress callback does: it returns, raises an
\* Exception, or raises what `except Exception` does not catch.
progress_callback(kind) ==
    IF kind = "raising" THEN Raised("RuntimeError", "callback failed")
    ELSE IF kind = "interrupting" THEN Raised("KeyboardInterrupt", "")
    ELSE Returned(None)

\* try: progress_callback(...) except Exception: pass
Swallowed(o) == IsReturn(o) \/ IsException(o[2])

SeqCallback_unguarded ==
    /\ SeqRunning
    /\ call.progress_callback # "none"
    /\ task[Current] = "queued"
    /\ events' = Append(events, CbEvent(Current))
    /\ IF IsReturn(progress_callback(call.progress_callback))
       THEN /\ task' = [task EXCEPT ![Current] = "called"]
            /\ UNCHANGED <<pc, ret>>
       ELSE /\ task' = [task EXCEPT ![Current] = "finished"]
            /\ pc' = "raised"
            /\ ret' = progress_callback(call.progress_callback)
    /\ UNCHANGED <<host, heap, lastOp, call, items, submitted, future, results,
                   prev, cmpVars>>

\* progress_callback(name, idx, total); what it raises (an Exception) is dropped.
SeqCallback ==
    /\ SeqRunning
    /\ call.progress_callback # "none"
    /\ task[Current] = "queued"
    /\ events' = Append(events, CbEvent(Current))
    /\ IF Swallowed(progress_callback(call.progress_callback))
       THEN /\ task' = [task EXCEPT ![Current] = "called"]
            /\ UNCHANGED <<pc, ret>>
       ELSE /\ task' = [task EXCEPT ![Current] = "finished"]
            /\ pc' = "raised"
            /\ ret' = progress_callback(call.progress_callback)
    /\ UNCHANGED <<host, heap, lastOp, call, items, submitted, future, results,
                   prev, cmpVars>>

\* results[name] = collector.safe_collect()
SeqCollect ==
    /\ SeqRunning
    /\ \/ task[Current] = "called"
       \/ task[Current] = "queued" /\ call.progress_callback = "none"
    /\ LET i == Current
           o == safe_collect(items[i], host)
       IN  /\ events' = Append(events, CollectEvent(i))
           /\ IF IsReturn(o)
              THEN /\ results' = (items[i].name :> o[2]) @@ results
                   /\ task' = [task EXCEPT ![i] = "harvested"]
                   /\ UNCHANGED <<pc, ret>>
              ELSE /\ pc' = "raised"
                   /\ ret' = o
                   /\ task' = [task EXCEPT ![i] = "finished"]
                   /\ UNCHANGED results
    /\ UNCHANGED <<host, heap, lastOp, call, items, submitted, future, prev, cmpVars>>

SeqReturn ==
    /\ pc = "seq"
    /\ \A i \in DOMAIN items : task[i] = "harvested"
    /\ pc' = "returned"
    /\ ret' = ReturnValue
    /\ UNCHANGED <<host, heap, lastOp, call, items, submitted, task, future, results,
                   events, prev, cmpVars>>

(***************************************************************************)
(* collect_all, parallel mode (lines 175-202): the main thread submits     *)
(* every item to a ThreadPoolExecutor, whose workers take the tasks in     *)
(* submission order, and gathers the futures as they complete.             *)
(***************************************************************************)
Busy == Cardinality({i \in DOMAIN items : task[i] \in {"running", "called"}})

PoolAlive == pc \in {"par", "unwinding"}

\* pool.submit(_run, name, collector, idx)
Submit_when_worker_free ==
    /\ pc = "par"
    /\ submitted < total
    /\ Cardinality({i \in DOMAIN items : task[i] \in {"queued", "running", "called", "finished"}})
          < call.max_workers
    /\ submitted' = submitted + 1
    /\ task' = [task EXCEPT ![submitted + 1] = "queued"]
    /\ UNCHANGED <<host, heap, lastOp, pc, call, items, future, results, events, ret,
                   prev, cmpVars>>

Submit ==
    /\ pc = "par"
    /\ submitted < total
    /\ submitted' = submitted + 1
    /\ task' = [task EXCEPT ![submitted + 1] = "queued"]
    /\ UNCHANGED <<host, heap, lastOp, pc, call, items, future, results, events, ret,
                   prev, cmpVars>>

\* A free worker takes the oldest queued task.
WorkerTake(i) ==
    /\ PoolAlive
    /\ task[i] = "queued"
    /\ \A j \in 1..(i - 1) : task[j] # "queued"
    /\ Busy < call.max_workers
    /\ task' = [task EXCEPT ![i] = "running"]
    /\ UNCHANGED <<host, heap, lastOp, pc, call, items, submitted, future, results,
                   events, ret, prev, cmpVars>>

CbCount == Cardinality({p \in DOMAIN events : events[p][1] = "cb"})

WorkerCallback_completion_index(i) ==
    /\ PoolAlive
    /\ task[i] = "running"
    /\ call.progress_callback # "none"
    /\ task' = [task EXCEPT ![i] = "called"]
    /\ events' = Append(events, <<"cb", items[i].name, CbCount, total>>)
    /\ UNCHANGED <<host, heap, lastOp, pc, call, items, submitted, future, results,
                   ret, prev, cmpVars>>

\* _run: progress_callback(name, idx, total), an Exception from it dropped;
\* anything else ends _run and is kept by the Future.
WorkerCallback(i) ==
    /\ PoolAlive
    /\ task[i] = "running"
    /\ call.progress_callback # "none"
    /\ events' = Append(events, CbEvent(i))
    /\ IF Swallowed(progress_callback(call.progress_callback))
       THEN /\ task' = [task EXCEPT ![i] = "called"]
            /\ UNCHANGED future
       ELSE /\ task' = [task EXCEPT ![i] = "finished"]
            /\ future' = [future EXCEPT ![i] = progress_callback(call.progress_callback)]
    /\ UNCHANGED <<host, heap, lastOp, pc, call, items, submitted, results,
                   ret, prev, cmpVars>>

WorkerCollect_writes_results(i) ==
    /\ PoolAlive
    /\ \/ task[i] = "called"
       \/ task[i] = "running" /\ call.progress_callback = "none"
    /\ future' = [future EXCEPT ![i] = safe_collect(items[i], host)]
    /\ results' = IF IsReturn(safe_collect(items[i], host))
                  THEN (items[i].name :> safe_collect(items[i], host)[2]) @@ results
                  ELSE results
    /\ task' = [task EXCEPT ![i] = "finished"]
    /\ events' = Append(events, CollectEvent(i))
    /\ UNCHANGED <<host, heap, lastOp, pc, call, items, submitted, ret, prev, cmpVars>>

WorkerCollect_late_binding(i) ==
    /\ PoolAlive
    /\ \/ task[i] = "called"
       \/ task[i] = "running" /\ call.progress_callback = "none"
    /\ future' = [future EXCEPT ![i] = safe_collect(items[total], host)]
    /\ task' = [task EXCEPT ![i] = "finished"]
    /\ events' = Append(events, CollectEvent(i))
    /\ UNCHANGED <<host, heap, lastOp, pc, call, items, submitted, results, ret,
                   prev, cmpVars>>

\* _run: return name, collector.safe_collect(); the Future takes the result,
\* or the exception that escaped.
WorkerCollect(i) ==
    /\ PoolAlive
    /\ \/ task[i] = "called"
       \/ task[i] = "running" /\ call.progress_callback = "none"
    /\ future' = [future EXCEPT ![i] = safe_collect(items[i], host)]
    /\ task' = [task EXCEPT ![i] = "finished"]
    /\ events' = Append(events, CollectEvent(i))
    /\ UNCHANGED <<host, heap, lastOp, pc, call, items, submitted, results, ret,
                   prev, cmpVars>>

\* for future in as_completed(futures): results[name] = result, or the failed
\* outcome for an Exception; anything else leaves the loop and the with block.
Harvest(i) ==
    /\ pc = "par"
    /\ submitted = total
    /\ task[i] = "finished"
    /\ LET o == future[i]
           name == items[i].name
       IN  IF IsReturn(o)
           THEN /\ results' = (name :> o[2]) @@ results
                /\ task' = [task EXCEPT ![i] = "harvested"]
                /\ UNCHANGED <<pc, ret>>
           ELSE IF IsException(o[2])
           THEN /\ results' = (name :> CollectorResult(FALSE, JNone, JStr(o[2].msg), name))
                              @@ results
                /\ task' = [task EXCEPT ![i] = "harvested"]
                /\ UNCHANGED <<pc, ret>>
           ELSE /\ pc' = "unwinding"
                /\ ret' = o
                /\ UNCHANGED <<results, task>>
    /\ UNCHANGED <<host, heap, lastOp, call, items, submitted, future, events, prev,
                   cmpVars>>

\* Leaving the with block waits for the pool: every task still runs.
Unwound ==
    /\ pc = "unwinding"
    /\ \A i \in DOMAIN items : task[i] \in {"finished", "harvested"}
    /\ pc' = "raised"
    /\ UNCHANGED <<host, heap, lastOp, call, items, submitted, task, future, results,
                   events, ret, prev, cmpVars>>

ParReturn ==
    /\ pc = "par"
    /\ submitted = total
    /\ \A i \in DOMAIN items : task[i] = "harvested"
    /\ pc' = "returned"
    /\ ret' = ReturnValue
    /\ UNCHANGED <<host, heap, lastOp, call, items, submitted, task, future, results,
                   events, prev, cmpVars>>

\* The caller takes the result (or the exception) and goes on.  `observe`
\* keeps what a sequential collection returned, for later comparison.
Done(observe) ==
    /\ pc \in {"returned", "raised"}
    /\ pc' = "idle"
    /\ prev' = IF observe /\ ~call.parallel
               THEN [items |-> items, results |-> results, valid |-> pc = "returned"]
               ELSE prev
    /\ call' = NoCall
    /\ items' = <<>>
    /\ submitted' = 0
    /\ task' = <<>>
    /\ future' = <<>>
    /\ results' = <<>>
    /\ events' = <<>>
    /\ ret' = None
    /\ UNCHANGED <<host, heap, lastOp, cmpVars>>

Steps ==
    \/ SeqCallback
    \/ SeqCollect
    \/ SeqReturn
    \/ Submit
    \/ \E i \in DOMAIN items : WorkerTake(i)
    \/ \E i \in DOMAIN items : WorkerCallback(i)
    \/ \E i \in DOMAIN items : WorkerCollect(i)
    \/ \E i \in DOMAIN items : Harvest(i)
    \/ Unwound
    \/ ParReturn

(***************************************************************************)
(* Specifications.                                                         *)
(***************************************************************************)
MaxWorkers == 2
MaxCollectors == 2

CbKinds == {"none", "ok", "raising"}
FilterNames == {"InstalledAppsCollector", "KernelExtensionsCollector", "NoSuchCollector"}

Apps(id) == Collector("InstalledAppsCollector", "InstalledAppsCollector", id)
Kext(id) == Collector("KernelExtensionsCollector", "KernelExtensionsCollector", id)
Broken(id) == Collector("BrokenCollector", "BrokenCollector", id)
Interrupted(id) == Collector("InterruptedCollector", "InterruptedCollector", id)

IdleRun ==
    /\ pc = "idle" /\ call = NoCall /\ items = <<>> /\ submitted = 0
    /\ task = <<>> /\ future = <<>> /\ results = <<>> /\ events = <<>>
    /\ ret = None /\ prev = NoPrev /\ lastOp = NoOp
NoCmp == cmpIn = None /\ cmpOut = None /\ disk = None

\* Every dict of at most MaxCollectors collectors over a set of instances.
Dicts(cs) ==
    {d \in UNION {[1..n -> cs] : n \in 0..MaxCollectors} :
        \A i, j \in DOMAIN d : i # j => d[i].name # d[j].name}

\* Runs: one registry, filled in any order with any of the collectors, on any host.
RunCollectors == {Apps(1), Kext(1), Broken(1), Interrupted(1)}

InitRun ==
    /\ host \in Hosts
    /\ \E d \in Dicts(RunCollectors) :
          heap = [r \in RegIds |-> IF r = "default_registry" THEN d ELSE <<>>]
    /\ IdleRun
    /\ NoCmp

NextRun ==
    \/ \E parallel \in BOOLEAN, k \in 1..MaxWorkers, cb \in CbKinds :
          collect_all("default_registry", parallel, k, cb)
    \/ \E W \in SUBSET {"InstalledAppsCollector", "BrokenCollector"},
          parallel \in BOOLEAN :
          create_fingerprint("default_registry", W, {}, TRUE, "none", parallel, MaxWorkers)
    \/ Steps
    \/ Done(TRUE)

SpecRun == InitRun /\ [][NextRun]_vars

(***************************************************************************)
(* Properties of a collection run (checked under SpecRun).                 *)
(***************************************************************************)
Finished == pc \in {"returned", "raised"}
Aborted == pc \in {"raised", "unwinding"}
InCall == call.fn # "none"

Throwers == {i \in DOMAIN items : ~IsReturn(collect(items[i], host))}
OrdinaryThrowers == {i \in Throwers : collect(items[i], host)[2].cls \notin BaseOnly}

\* What collect_all must report for item i when failures are isolated.
IsolatedOutcome(i) ==
    IF i \in Throwers
    THEN CollectorResult(FALSE, JNone, JStr(collect(items[i], host)[2].msg), items[i].name)
    ELSE collect(items[i], host)[2]

CommandsOf(c) ==
    IF c.cls = "InstalledAppsCollector" THEN {"ls_applications", "ls_user_applications"}
    ELSE IF c.cls = "KernelExtensionsCollector" THEN {"kextstat"}
    ELSE {}
CommandFailed(c) == \E cmd \in CommandsOf(c) : host[cmd].kind # "ok"

\* The lines a command gave, [] when it gave none.
LinesOf(cmd) ==
    IF host[cmd].kind = "ok" THEN JList([i \in DOMAIN host[cmd].stdout |->
                                           JStr(host[cmd].stdout[i])])
    ELSE JList(<<>>)

ExpectedData(c) ==
    IF c.cls = "InstalledAppsCollector"
    THEN JDict([system |-> LinesOf("ls_applications"),
                user |-> LinesOf("ls_user_applications")])
    ELSE LinesOf("kextstat")

Entry(name) == ret[2][2]["collectors"][2][name]
IsErrorRecord(v) == IsDict(v) /\ DOMAIN v[2] = {"error"}

FingerprintReturned == pc = "returned" /\ call.fn = "create_fingerprint"

C3_ParallelEqualsSequential ==
    (InCall /\ call.parallel /\ prev.valid /\ prev.items = items) =>
        /\ ~Aborted
        /\ pc = "returned" => results = prev.results

C3_Witness ==
    /\ pc = "returned" /\ call.parallel /\ call.max_workers > 1
    /\ prev.valid /\ prev.items = items /\ Len(items) > 1
    /\ Throwers # {}
    /\ events[Len(events)] = CollectEvent(1)

\* The invocations sequential mode makes, in order.
SeqExpected ==
    IF call.progress_callback = "none"
    THEN [k \in 1..total |-> <<"collect", items[k].name>>]
    ELSE [k \in 1..(2 * total) |->
            IF k % 2 = 1 THEN <<"cb", items[(k + 1) \div 2].name, (k + 1) \div 2 - 1, total>>
            ELSE <<"collect", items[k \div 2].name>>]

IsPrefix(s, t) == Len(s) <= Len(t) /\ \A k \in DOMAIN s : s[k] = t[k]

\* C4: sequential mode runs the collectors one at a time in registration
\* order; the callback is invoked exactly once per collector, with (name, i,
\* total), after collector i-1 has finished and before collector i starts.
C4_SequentialOrder ==
    (InCall /\ ~call.parallel) =>
        /\ IsPrefix(events, SeqExpected)
        /\ pc = "returned" => events = SeqExpected

C4_Witness ==
    /\ pc = "returned" /\ ~call.parallel /\ call.progress_callback = "ok"
    /\ total > 1
    /\ events[3] = <<"cb", items[2].name, 1, total>>

Positions(e) == {p \in DOMAIN events : events[p] = e}
Started(i) == task[i] \in {"called", "finished", "harvested"}

\* C5: in parallel mode the callback is invoked exactly once per collector,
\* with (name, i, total), i the collector's position in registration order,
\* whatever the completion order, and before that collector's collect().
C5_ParallelCallback ==
    (InCall /\ call.parallel /\ call.progress_callback # "none") =>
        /\ \A p \in DOMAIN events :
              events[p][1] = "cb" => \E i \in DOMAIN items : events[p] = CbEvent(i)
        /\ \A i \in DOMAIN items :
              /\ Cardinality(Positions(CbEvent(i))) = IF Started(i) THEN 1 ELSE 0
              /\ \A q \in Positions(CollectEvent(i)) :
                    \E p \in Positions(CbEvent(i)) : p < q
              /\ Finished => Cardinality(Positions(CbEvent(i))) = 1

C5_Witness ==
    /\ pc = "returned" /\ call.parallel /\ call.progress_callback = "ok"
    /\ total > 1
    /\ events[1] = <<"cb", items[2].name, 1, total>>
    /\ events[2] = CollectEvent(2)

(***************************************************************************)
(* Registries: two instances a caller manages, and the ones                *)
(* create_fingerprint builds for itself; every registry operation, and     *)
(* collections with and without filtering.                                 *)
(***************************************************************************)
RegCollectors == {Apps(1), Apps(2), Interrupted(1)}
FilterSets == {{}, {"InstalledAppsCollector"},
               {"KernelExtensionsCollector", "NoSuchCollector"}}

InitReg ==
    /\ host = HostMixed
    /\ heap = [r \in RegIds |-> <<>>]
    /\ IdleRun
    /\ NoCmp

NextReg ==
    \/ \E r \in UserRegs, c \in RegCollectors : register(r, c)
    \/ \E r \in UserRegs, n \in FilterNames : unregister(r, n)
    \/ \E r \in UserRegs : clear(r)
    \/ \E r \in UserRegs, parallel \in BOOLEAN :
          collect_all(r, parallel, MaxWorkers, "ok")
    \/ \E given \in UserRegs \cup {"None"}, W \in FilterSets, B \in FilterSets,
          parallel \in BOOLEAN :
          create_fingerprint(given, W, B, TRUE, "none", parallel, MaxWorkers)
    \/ Steps
    \/ Done(FALSE)

SpecReg == InitReg /\ [][NextReg]_vars

View(r) == get_all_collectors(r)

\* The set create_fingerprint is to leave and run, given the names before.
Kept(before, W, B) == IF W # {} THEN (before \cap W) \ B ELSE before \ B

Filtering == call.fn = "create_fingerprint"

\* C6: create_fingerprint(registry=R, collectors=W, exclude=B) runs, and puts in
\* the fingerprint, exactly (names(R) /\ W) \ B when W is non-empty and
\* names(R) \ B otherwise; unregistered names are ignored; R itself is left
\* holding exactly that set, so nothing filtered out is there for a later call.
C6_Filtering ==
    Filtering =>
        LET kept == Kept(Names(call.pre), call.collectors, call.exclude)
        IN  /\ Names(items) = kept
            /\ Names(View(call.reg)) = kept
            /\ \A p \in DOMAIN events : events[p][2] \in kept
            /\ pc = "returned" =>
                  /\ DOMAIN ret[2][2]["collectors"][2] = kept
                  /\ {events[p][2] : p \in DOMAIN events} = kept

C6_Witness ==
    /\ Filtering /\ pc = "returned" /\ call.given = "reg_a"
    /\ call.collectors = {"InstalledAppsCollector"}
    /\ call.exclude = {"KernelExtensionsCollector", "NoSuchCollector"}
    /\ Names(call.pre) = {"InstalledAppsCollector", "InterruptedCollector"}
    /\ View("reg_a") = <<Apps(2)>>
    /\ View("default_registry") = <<Interrupted(1), Apps(1)>>

AllNames == Names(ALL_COLLECTORS)

\* C7: registry instances are independent: an operation on one instance
\* (register, unregister, clear, filtering, collect_all) leaves every other
\* instance's collectors as they were, and a create_fingerprint call without a
\* registry starts from the full collector set whatever an earlier call filtered.
C7_Independent ==
    /\ [][\A q \in UserRegs : q # lastOp'.reg => View(q)' = View(q)]_vars
    /\ [][lastOp'.reg \in UserRegs => \A q \in LocalRegs : View(q)' = View(q)]_vars
    /\ []((Filtering /\ call.given = "None") =>
             /\ Names(call.pre) = AllNames
             /\ Names(items) = Kept(AllNames, call.collectors, call.exclude))

C7_Witness ==
    /\ Filtering /\ pc = "returned" /\ call.given = "None"
    /\ Names(View("local_prev")) = {"KernelExtensionsCollector"}
    /\ "InstalledAppsCollector" \in Names(items)
    /\ "InstalledAppsCollector" \in DOMAIN ret[2][2]["collectors"][2]
    /\ View("default_registry") = <<Apps(1)>>
    /\ View("reg_a") = <<Interrupted(1), Apps(2)>>

\* C8: the registry maps each name to the collector registered last under it and
\* not unregistered or cleared since: get_collector returns it (or nothing),
\* get_all_collectors lists each name once, registering a registered name
\* replaces the collector and keeps the count, unregistering an unknown name
\* changes nothing, and clear empties the registry.
C8_RegistryMap ==
    /\ \A r \in UserRegs :
          /\ Cardinality(Names(View(r))) = Len(View(r))
          /\ \A n \in FilterNames \cup AllNames :
                IF n \in Names(View(r))
                THEN get_collector(r, n) \in Range(View(r)) /\ get_collector(r, n).name = n
                ELSE get_collector(r, n) = None
    /\ lastOp.op = "register" =>
          LET c == lastOp.arg
              pre == lastOp.pre
              post == View(lastOp.reg)
          IN  /\ get_collector(lastOp.reg, c.name) = c
              /\ Len(post) = Len(pre) + (IF c.name \in Names(pre) THEN 0 ELSE 1)
              /\ \A n \in Names(pre) \cup Names(post) :
                    n # c.name => Lookup(post, n) = Lookup(pre, n)
    /\ lastOp.op = "unregister" =>
          LET n == lastOp.arg[2]
              pre == lastOp.pre
              post == View(lastOp.reg)
          IN  /\ get_collector(lastOp.reg, n) = None
              /\ n \notin Names(pre) => post = pre
              /\ \A m \in Names(pre) \cup Names(post) :
                    m # n => Lookup(post, m) = Lookup(pre, m)
    /\ lastOp.op = "clear" => View(lastOp.reg) = <<>>

C8_Witness ==
    /\ lastOp.op = "register"
    /\ lastOp.pre = <<Apps(1), Interrupted(1)>>
    /\ lastOp.arg = Apps(2)
    /\ View(lastOp.reg) = <<Apps(2), Interrupted(1)>>

(***************************************************************************)
(* core/comparison.py.  Counting goes through json.dumps and ordering      *)
(* through str(), which work on the characters of a string (Chars).        *)
(***************************************************************************)
\* ord(c)
CharCode(c) ==
    CASE c = " " -> 32 [] c = "\"" -> 34 [] c = "#" -> 35 [] c = "'" -> 39 [] c = "," -> 44
      [] c = "-" -> 45 [] c = "0" -> 48 [] c = "1" -> 49 [] c = "2" -> 50
      [] c = "3" -> 51 [] c = "4" -> 52 [] c = "5" -> 53 [] c = "6" -> 54
      [] c = "7" -> 55 [] c = "8" -> 56 [] c = "9" -> 57 [] c = ":" -> 58
      [] c = "N" -> 78 [] c = "[" -> 91 [] c = "\\" -> 92 [] c = "]" -> 93
      [] c = "_" -> 95
      [] c = "a" -> 97 [] c = "b" -> 98 [] c = "c" -> 99 [] c = "e" -> 101
      [] c = "g" -> 103 [] c = "h" -> 104 [] c = "i" -> 105 [] c = "l" -> 108
      [] c = "n" -> 110 [] c = "o" -> 111 [] c = "r" -> 114 [] c = "s" -> 115
      [] c = "t" -> 116 [] c = "u" -> 117 [] c = "y" -> 121
      [] c = "{" -> 123 [] c = "}" -> 125

\* s < t for two strings
RECURSIVE LexLess(_, _)
LexLess(s, t) ==
    IF t = <<>> THEN FALSE
    ELSE IF s = <<>> THEN TRUE
    ELSE IF Head(s) = Head(t) THEN LexLess(Tail(s), Tail(t))
    ELSE CharCode(Head(s)) < CharCode(Head(t))

\* the decimal digits of an int
RECURSIVE Digits(_)
Digits(n) ==
    IF n < 0 THEN <<"-">> \o Digits(-n)
    ELSE IF n < 10 THEN <<(<<"0", "1", "2", "3", "4", "5", "6", "7", "8", "9">>)[n + 1]>>
    ELSE Digits(n \div 10) \o Digits(n % 10)

\* sep.join(parts)
RECURSIVE Join(_, _)
Join(parts, sep) ==
    IF parts = <<>> THEN <<>>
    ELSE IF Len(parts) = 1 THEN parts[1]
    ELSE parts[1] \o sep \o Join(Tail(parts), sep)

\* sorted(keys) of a dict's string keys
RECURSIVE SortKeys(_)
SortKeys(S) ==
    IF S = {} THEN <<>>
    ELSE LET k == CHOOSE x \in S : \A y \in S \ {x} : LexLess(Chars(x), Chars(y))
         IN  <<k>> \o SortKeys(S \ {k})

\* The stable sort of the indices 1..n of a sequence of strings: sorted(key=str)
\* keeps elements of equal key in the order it is given them.
RECURSIVE StableOrder(_, _)
StableOrder(strs, n) ==
    IF n = 0 THEN <<>>
    ELSE LET before == StableOrder(strs, n - 1)
             keep == Cardinality({i \in DOMAIN before :
                                     ~LexLess(strs[n], strs[before[i]])})
         IN  SubSeq(before, 1, keep) \o <<n>> \o SubSeq(before, keep + 1, Len(before))

SortedBy(seq, strs) ==
    LET order == StableOrder(strs, Len(seq))
    IN  [i \in DOMAIN seq |-> seq[order[i]]]
\* json.dumps(item, sort_keys=True)
JsonEscape(cs) ==
    Join([i \in DOMAIN cs |->
            IF cs[i] \in {"\"", "\\"} THEN <<"\\", cs[i]>> ELSE <<cs[i]>>], <<>>)

JsonString(s) == <<"\"">> \o JsonEscape(Chars(s)) \o <<"\"">>

RECURSIVE json_dumps(_)
json_dumps(v) ==
    CASE IsStr(v) -> JsonString(v[2])
      [] IsInt(v) -> Digits(v[2])
      [] v = JNone -> <<"n", "u", "l", "l">>
      [] IsList(v) ->
            <<"[">> \o Join([i \in DOMAIN v[2] |-> json_dumps(v[2][i])], <<",", " ">>)
                    \o <<"]">>
      [] IsDict(v) ->
            LET keys == SortKeys(DOMAIN v[2])
            IN  <<"{">> \o Join([i \in DOMAIN keys |->
                                   JsonString(keys[i]) \o <<":", " ">>
                                       \o json_dumps(v[2][keys[i]])], <<",", " ">>)
                        \o <<"}">>

\* repr(s) of a string: single quotes, unless the string holds one and no
\* double quote
ReprString(s) ==
    LET cs == Chars(s)
        q == IF "'" \in Range(cs) /\ "\"" \notin Range(cs) THEN "\"" ELSE "'"
    IN  <<q>> \o Join([i \in DOMAIN cs |->
                         IF cs[i] \in {q, "\\"} THEN <<"\\", cs[i]>> ELSE <<cs[i]>>], <<>>)
            \o <<q>>

\* repr(v); a dict prints its keys in the order it holds them, which for the
\* dicts here is the sorted one
RECURSIVE py_repr(_)
py_repr(v) ==
    CASE IsStr(v) -> ReprString(v[2])
      [] IsInt(v) -> Digits(v[2])
      [] v = JNone -> Chars("None")
      [] IsList(v) ->
            <<"[">> \o Join([i \in DOMAIN v[2] |-> py_repr(v[2][i])], <<",", " ">>)
                    \o <<"]">>
      [] IsDict(v) ->
            LET keys == SortKeys(DOMAIN v[2])
            IN  <<"{">> \o Join([i \in DOMAIN keys |->
                                   ReprString(keys[i]) \o <<":", " ">>
                                       \o py_repr(v[2][keys[i]])], <<",", " ">>)
                        \o <<"}">>

\* str(v)
py_str(v) == IF IsStr(v) THEN Chars(v[2]) ELSE py_repr(v)

\* A Counter key: a str by its characters, an int or None as it is.  Two keys
\* are the same key exactly when Python finds them equal.
StrKey(cs) == <<"key", cs>>
key_str(k) == IF k[1] = "key" THEN k[2] ELSE py_repr(k)

make_hashable(item) ==
    IF IsList(item) \/ IsDict(item) THEN StrKey(json_dumps(item))
    ELSE IF IsStr(item) THEN StrKey(Chars(item[2]))
    ELSE item

\* The order a set of keys is iterated in is not fixed: one order and its
\* reverse stand for it.
IterationOrders == {"forward", "reverse"}
Reverse(s) == [i \in DOMAIN s |-> s[Len(s) + 1 - i]]
Iterate(S, it) == IF it = "forward" THEN KeySeq(S) ELSE Reverse(KeySeq(S))

\* [original] * diff for each key in turn
RECURSIVE Extend(_, _, _)
Extend(order, original, times) ==
    IF order = <<>> THEN <<>>
    ELSE [i \in 1..times[Head(order)] |-> original[Head(order)]]
             \o Extend(Tail(order), original, times)

Max0(n) == IF n > 0 THEN n ELSE 0
LastIndex(ks, k) == CHOOSE i \in DOMAIN ks : ks[i] = k /\ \A j \in DOMAIN ks : ks[j] = k => j <= i

\* sorted(seq, key=str)
sorted_by_str(seq) == SortedBy(seq, [i \in DOMAIN seq |-> py_str(seq[i])])
sorted_keys(keys) == SortedBy(keys, [i \in DOMAIN keys |-> key_str(keys[i])])

\* The two result lists, from the keys of both lists (bk, ck) and the order
\* their distinct keys are visited in.
counted_diff(baseline, current, bk, ck, order) ==
    LET count(ks, k) == Cardinality({i \in DOMAIN ks : ks[i] = k})
        key_to_orig == [k \in Range(order) |->
                           IF k \in Range(ck) THEN current[LastIndex(ck, k)]
                           ELSE baseline[LastIndex(bk, k)]]
        diff == [k \in Range(order) |-> count(ck, k) - count(bk, k)]
    IN  JDict([added |-> JList(sorted_by_str(
                            Extend(order, key_to_orig,
                                   [k \in Range(order) |-> Max0(diff[k])]))),
               removed |-> JList(sorted_by_str(
                            Extend(order, key_to_orig,
                                   [k \in Range(order) |-> Max0(-diff[k])])))])

keyed_diff(baseline, current, bk, ck, it) ==
    counted_diff(baseline, current, bk, ck,
                 sorted_keys(Iterate(Range(bk) \cup Range(ck), it)))

compare_lists(baseline, current, it) ==
    keyed_diff(baseline, current,
               [i \in DOMAIN baseline |-> make_hashable(baseline[i])],
               [i \in DOMAIN current |-> make_hashable(current[i])], it)
Entry_added(v) == JDict([type |-> JStr("added"), value |-> v])
Entry_removed(v) == JDict([type |-> JStr("removed"), value |-> v])
Entry_list(d) == JDict([type |-> JStr("modified"), added |-> d.added, removed |-> d.removed])
Entry_dict(d) == JDict([type |-> JStr("modified"), changes |-> d])
Entry_literal(b, c) == JDict([type |-> JStr("modified"), baseline |-> b, current |-> c])

\* bool(v) of a list or dict value
Truthy_when_present(v) == TRUE
Truthy(v) == DOMAIN v[2] # {}

keys_of_current(baseline, current) == DOMAIN current
all_keys(baseline, current) == DOMAIN baseline \cup DOMAIN current

\* The body of the loop over all_keys: the entry changes[key] gets, None when
\* it gets none.  list_diff and dict_diff are the results of the nested
\* comparisons, used in the branches that make them.
change_entry(baseline, current, key, list_diff, dict_diff) ==
    IF key \notin DOMAIN baseline THEN Entry_added(current[key])
    ELSE IF key \notin DOMAIN current THEN Entry_removed(baseline[key])
    ELSE IF baseline[key] = current[key] THEN None
    ELSE IF IsList(baseline[key]) /\ IsList(current[key])
    THEN IF Truthy(list_diff[2].added) \/ Truthy(list_diff[2].removed)
         THEN Entry_list(list_diff[2]) ELSE None
    ELSE IF IsDict(baseline[key]) /\ IsDict(current[key])
    THEN IF Truthy(dict_diff) THEN Entry_dict(dict_diff) ELSE None
    ELSE Entry_literal(baseline[key], current[key])

\* the dict of the keys that got an entry
Changes(f) == JDict([k \in {j \in DOMAIN f : f[j] # None} |-> f[k]])

RECURSIVE compare_dicts(_, _, _)
compare_dicts(baseline, current, it) ==
    Changes([key \in all_keys(baseline, current) |->
               change_entry(baseline, current, key,
                            compare_lists(baseline[key][2], current[key][2], it),
                            compare_dicts(baseline[key][2], current[key][2], it))])

(***************************************************************************)
(* The comparison functions, applied to lists and dicts drawn from small   *)
(* sets of values: strings, among them one that reads as the JSON of a     *)
(* list, ints, lists and dicts.                                            *)
(***************************************************************************)
MaxLen == 3

ListElems == {JStr("a"), JStr("[]"), JList(<<>>), JDict([a |-> JInt(1)])}
Lists == UNION {[1..n -> ListElems] : n \in 0..MaxLen}

DictKeys == {"a", "b"}
DictVals == {JInt(1), JStr("a"), JList(<<>>), JList(<<JStr("a")>>), JList(<<JStr("[]")>>),
             JList(<<JList(<<>>)>>), JDict(EmptyDict), JDict([a |-> JInt(1)]),
             JDict([a |-> JStr("a")])}
DictsOf == UNION {[K -> DictVals] : K \in SUBSET DictKeys}

CmpCall(fn, baseline, current) == [fn |-> fn, baseline |-> baseline, current |-> current]

InitCmp ==
    /\ host = HostUp
    /\ heap = [r \in RegIds |-> <<>>]
    /\ IdleRun
    /\ cmpOut = None /\ disk = None
    /\ \/ \E b \in Lists, c \in Lists : cmpIn = CmpCall("compare_lists", b, c)
       \/ \E b \in DictsOf, c \in DictsOf : cmpIn = CmpCall("compare_dicts", b, c)

CompareLists ==
    /\ cmpIn.fn = "compare_lists" /\ cmpOut = None
    /\ \E it \in IterationOrders :
          cmpOut' = compare_lists(cmpIn.baseline, cmpIn.current, it)
    /\ UNCHANGED <<regVars, cmpIn, disk>>

CompareDicts ==
    /\ cmpIn.fn = "compare_dicts" /\ cmpOut = None
    /\ \E it \in IterationOrders :
          cmpOut' = compare_dicts(cmpIn.baseline, cmpIn.current, it)
    /\ UNCHANGED <<regVars, cmpIn, disk>>

NextCmp == CompareLists \/ CompareDicts

SpecCmp == InitCmp /\ [][NextCmp]_vars

Compared(fn) == cmpOut # None /\ cmpIn.fn = fn

CountIn(seq, x) == Cardinality({i \in DOMAIN seq : seq[i] = x})

\* C9: compare_lists has multiset semantics over the original values: every
\* value x occurs max(0, count_current(x) - count_baseline(x)) times in 'added'
\* and max(0, count_baseline(x) - count_current(x)) times in 'removed'.
C9_MultisetOverValues ==
    Compared("compare_lists") =>
        LET b == cmpIn.baseline
            c == cmpIn.current
            added == cmpOut[2].added[2]
            removed == cmpOut[2].removed[2]
        IN  \A x \in Range(b) \cup Range(c) \cup Range(added) \cup Range(removed) :
               /\ CountIn(added, x) = Max0(CountIn(c, x) - CountIn(b, x))
               /\ CountIn(removed, x) = Max0(CountIn(b, x) - CountIn(c, x))

\* What compare_dicts is to return for each key, as a relation between the two
\* mappings and the result.
RECURSIVE DictDiffOk(_, _, _)
DictDiffOk(b, c, out) ==
    /\ DOMAIN out \subseteq DOMAIN b \cup DOMAIN c
    /\ \A k \in DOMAIN b \cup DOMAIN c :
          IF k \notin DOMAIN b
          THEN k \in DOMAIN out /\ out[k] = JDict([type |-> JStr("added"), value |-> c[k]])
          ELSE IF k \notin DOMAIN c
          THEN k \in DOMAIN out /\ out[k] = JDict([type |-> JStr("removed"), value |-> b[k]])
          ELSE IF b[k] = c[k] THEN k \notin DOMAIN out
          ELSE IF IsList(b[k]) /\ IsList(c[k])
          THEN \E it \in IterationOrders :
                  LET d == compare_lists(b[k][2], c[k][2], it)[2]
                  IN  IF d.added[2] # <<>> \/ d.removed[2] # <<>>
                      THEN /\ k \in DOMAIN out
                           /\ out[k] = JDict([type |-> JStr("modified"),
                                              added |-> d.added, removed |-> d.removed])
                      ELSE k \notin DOMAIN out
          ELSE IF IsDict(b[k]) /\ IsDict(c[k])
          THEN IF k \in DOMAIN out
               THEN /\ DOMAIN out[k][2] = {"type", "changes"}
                    /\ out[k][2].type = JStr("modified")
                    /\ IsDict(out[k][2].changes)
                    /\ DOMAIN out[k][2].changes[2] # {}
                    /\ DictDiffOk(b[k][2], c[k][2], out[k][2].changes[2])
               ELSE DictDiffOk(b[k][2], c[k][2], EmptyDict)
          ELSE /\ k \in DOMAIN out
               /\ out[k] = JDict([type |-> JStr("modified"),
                                  baseline |-> b[k], current |-> c[k]])

\* C10: compare_dicts returns a mapping over exactly the keys that are only in
\* current (added), only in baseline (removed), or in both with unequal values
\* and a non-empty list diff, a non-empty recursive diff, or a scalar or
\* type-mismatch difference (modified); a key with equal values never appears.
C10_CompareDicts ==
    Compared("compare_dicts") =>
        /\ IsDict(cmpOut)
        /\ DictDiffOk(cmpIn.baseline, cmpIn.current, cmpOut[2])

C10_Witness ==
    /\ Compared("compare_dicts")
    /\ cmpIn.baseline = [a |-> JDict([a |-> JInt(1)]), b |-> JList(<<JStr("a")>>)]
    /\ cmpIn.current = [a |-> JDict([a |-> JStr("a")]), b |-> JList(<<>>)]
    /\ cmpOut = JDict([a |-> JDict([type |-> JStr("modified"),
                          changes |-> JDict([a |-> JDict([type |-> JStr("modified"),
                                baseline |-> JInt(1), current |-> JStr("a")])])]),
                       b |-> JDict([type |-> JStr("modified"), added |-> JList(<<>>),
                                    removed |-> JList(<<JStr("a")>>)])])

(***************************************************************************)
(* classify_severity and compare_fingerprints.                             *)
(***************************************************************************)
critical_collectors == {"SecuritySettingsCollector", "GatekeeperCollector",
                        "SSHConfigCollector"}
high_collectors == {"KernelExtensionsCollector", "LaunchAgentsCollector",
                    "UserAccountsCollector", "NetworkConfigCollector"}
ChangeTypes == {"added", "removed", "modified"}

classify_severity_by_kind(collector_name, change_type) ==
    IF change_type = "removed" THEN "medium"
    ELSE IF collector_name \in critical_collectors THEN "critical"
    ELSE IF collector_name \in high_collectors THEN "high"
    ELSE "low"

classify_severity(collector_name, change_type) ==
    IF collector_name \in critical_collectors THEN "critical"
    ELSE IF collector_name \in high_collectors THEN "high"
    ELSE IF change_type = "removed" THEN "medium"
    ELSE "low"

\* d.get(key, default) of a document
dict_get(d, key, default) == IF key \in DOMAIN d[2] THEN d[2][key] ELSE default

\* set(ignore_collectors) if ignore_collectors else set()
ignore_first_only(ignore_collectors) ==
    IF ignore_collectors = None \/ ignore_collectors = <<>> THEN {}
    ELSE {Head(ignore_collectors)}

ignore_set_of(ignore_collectors) ==
    IF ignore_collectors = None \/ ignore_collectors = <<>> THEN {}
    ELSE Range(ignore_collectors)

\* differences["summary"] and differences["changes"] as the loop holds them
Differences_stale ==
    [summary |-> [total_changes |-> 1, critical |-> 0, high |-> 0, medium |-> 0, low |-> 1],
     changes |-> EmptyDict]

NoDifferences ==
    [summary |-> [total_changes |-> 0, critical |-> 0, high |-> 0, medium |-> 0, low |-> 0],
     changes |-> EmptyDict]

\* differences["changes"][collector] = entry; summary[severity] += 1;
\* summary["total_changes"] += 1
Emit_uncounted(acc, collector, severity, entry) ==
    [summary |-> IF entry[2].type = JStr("modified")
                 THEN [acc.summary EXCEPT ![severity] = @ + 1, !.total_changes = @ + 1]
                 ELSE [acc.summary EXCEPT !.total_changes = @ + 1],
     changes |-> [k \in DOMAIN acc.changes \cup {collector} |->
                    IF k = collector THEN entry ELSE acc.changes[k]]]

Emit(acc, collector, severity, entry) ==
    [summary |-> [acc.summary EXCEPT ![severity] = @ + 1, !.total_changes = @ + 1],
     changes |-> [k \in DOMAIN acc.changes \cup {collector} |->
                    IF k = collector THEN entry ELSE acc.changes[k]]]

WithSeverity(severity, fields) ==
    JDict([k \in DOMAIN fields \cup {"severity"} |->
             IF k = "severity" THEN JStr(severity) ELSE fields[k]])

\* severity = ChangeSeverity.LOW for an added collector, ChangeSeverity.MEDIUM
\* for a removed one
severity_of_added_by_table(collector) == classify_severity(collector, "added")
severity_of_added(collector) == "low"
severity_of_removed(collector) == "medium"

\* the body of the loop over all_collectors; severity, list_diff and dict_diff
\* are classify_severity(collector, MODIFIED) and the results of compare_lists
\* and compare_dicts, used in the branches that compute them
collector_change(acc, collector, bc, cc, ignore_set, severity, list_diff, dict_diff) ==
    IF collector \in ignore_set THEN acc
    ELSE IF collector \notin DOMAIN bc
    THEN Emit(acc, collector, severity_of_added(collector),
              WithSeverity(severity_of_added(collector),
                           [type |-> JStr("collector_added"), data |-> cc[collector]]))
    ELSE IF collector \notin DOMAIN cc
    THEN Emit(acc, collector, severity_of_removed(collector),
              WithSeverity(severity_of_removed(collector),
                           [type |-> JStr("collector_removed"), data |-> bc[collector]]))
    ELSE IF bc[collector] = cc[collector] THEN acc
    ELSE IF IsList(bc[collector]) /\ IsList(cc[collector])
    THEN IF Truthy(list_diff[2].added) \/ Truthy(list_diff[2].removed)
         THEN Emit(acc, collector, severity,
                   WithSeverity(severity, [type |-> JStr("modified"),
                       added |-> list_diff[2].added, removed |-> list_diff[2].removed]))
         ELSE acc
    ELSE IF IsDict(bc[collector]) /\ IsDict(cc[collector])
    THEN IF Truthy(dict_diff)
         THEN Emit(acc, collector, severity,
                   WithSeverity(severity, [type |-> JStr("modified"), changes |-> dict_diff]))
         ELSE acc
    ELSE Emit(acc, collector, severity,
              WithSeverity(severity, [type |-> JStr("modified"),
                  baseline |-> bc[collector], current |-> cc[collector]]))

compare_collector(acc, collector, bc, cc, ignore_set, it) ==
    collector_change(acc, collector, bc, cc, ignore_set,
                     classify_severity(collector, "modified"),
                     compare_lists(bc[collector][2], cc[collector][2], it),
                     compare_dicts(bc[collector][2], cc[collector][2], it))

RECURSIVE compare_loop(_, _, _, _, _, _)
compare_loop(order, acc, bc, cc, ignore_set, it) ==
    IF order = <<>> THEN acc
    ELSE compare_loop(Tail(order),
                      compare_collector(acc, Head(order), bc, cc, ignore_set, it),
                      bc, cc, ignore_set, it)

JSummary(summary) == JDict([k \in DOMAIN summary |-> JInt(summary[k])])

comparison_result(baseline, current, now, differences) ==
    JDict([timestamp |-> JStr(now),
           baseline_timestamp |-> dict_get(baseline, "timestamp", JStr("unknown")),
           current_timestamp |-> dict_get(current, "timestamp", JStr("unknown")),
           summary |-> JSummary(differences.summary),
           changes |-> JDict(differences.changes)])

collectors_of(doc) == dict_get(doc, "collectors", JDict(EmptyDict))[2]

compare_collectors(baseline_collectors, current_collectors, ignore_collectors, it) ==
    compare_loop(Iterate(DOMAIN baseline_collectors \cup DOMAIN current_collectors, it),
                 NoDifferences, baseline_collectors, current_collectors,
                 ignore_set_of(ignore_collectors), it)

compare_fingerprints(baseline, current, ignore_collectors, now, it) ==
    comparison_result(baseline, current, now,
                      compare_collectors(collectors_of(baseline), collectors_of(current),
                                         ignore_collectors, it))

(***************************************************************************)
(* compare_fingerprints applied to pairs of fingerprint documents over     *)
(* three collectors (one of the critical table, one of the high table, one *)
(* of neither), with and without an ignore list; classify_severity applied *)
(* to every name of the tables and one outside them.                       *)
(***************************************************************************)
FpNames == {"SSHConfigCollector", "KernelExtensionsCollector", "InstalledAppsCollector"}

FpData(name) ==
    CASE name = "SSHConfigCollector" ->
            {JList(<<JStr("a")>>), JDict([a |-> JInt(1)]), JDict([a |-> JStr("a")])}
      [] name = "KernelExtensionsCollector" ->
            {JList(<<JStr("[]")>>), JList(<<JList(<<>>)>>), JStr("a")}
      [] name = "InstalledAppsCollector" ->
            {JList(<<JStr("a")>>), JDict([a |-> JInt(1)]), JInt(1)}

FpCollectors ==
    UNION {{f \in [K -> UNION {FpData(n) : n \in K}] : \A n \in K : f[n] \in FpData(n)} :
             K \in SUBSET FpNames}

FpDoc(f) == JDict([timestamp |-> JStr("t0"), collectors |-> JDict(f)])
FpDocs == {FpDoc(f) : f \in FpCollectors} \cup {JDict([timestamp |-> JStr("t0")])}

IgnoreLists == {None, <<>>, <<"SSHConfigCollector">>,
                <<"InstalledAppsCollector", "NoSuchCollector", "KernelExtensionsCollector">>}
Clock == {"t1"}

FpCall(baseline, current, ignore_collectors) ==
    [fn |-> "compare_fingerprints", baseline |-> baseline, current |-> current,
     ignore_collectors |-> ignore_collectors]
SeverityCall(collector_name, change_type) ==
    [fn |-> "classify_severity", collector_name |-> collector_name,
     change_type |-> change_type]

InitFp ==
    /\ host = HostUp
    /\ heap = [r \in RegIds |-> <<>>]
    /\ IdleRun
    /\ cmpOut = None /\ disk = None
    /\ \/ \E b \in FpDocs, c \in FpDocs, ig \in IgnoreLists : cmpIn = FpCall(b, c, ig)
       \/ \E n \in critical_collectors \cup high_collectors \cup {"InstalledAppsCollector"},
             t \in ChangeTypes : cmpIn = SeverityCall(n, t)

CompareFingerprints ==
    /\ cmpIn.fn = "compare_fingerprints" /\ cmpOut = None
    /\ \E now \in Clock, it \in IterationOrders :
          cmpOut' = compare_fingerprints(cmpIn.baseline, cmpIn.current,
                                         cmpIn.ignore_collectors, now, it)
    /\ UNCHANGED <<regVars, cmpIn, disk>>

ClassifySeverity ==
    /\ cmpIn.fn = "classify_severity" /\ cmpOut = None
    /\ cmpOut' = JStr(classify_severity(cmpIn.collector_name, cmpIn.change_type))
    /\ UNCHANGED <<regVars, cmpIn, disk>>

NextFp == CompareFingerprints \/ ClassifySeverity

SpecFp == InitFp /\ [][NextFp]_vars

Severities == {"critical", "high", "medium", "low"}
FpSummary == cmpOut[2].summary[2]
FpChanges == cmpOut[2].changes[2]
CollectorsIn(d) == IF "collectors" \in DOMAIN d[2] THEN d[2].collectors[2] ELSE EmptyDict
FpIgnored == IF cmpIn.ignore_collectors = None THEN {} ELSE Range(cmpIn.ignore_collectors)

\* C11: comparing a document with itself gives total_changes 0, every severity
\* count 0 and an empty changes mapping.
C11_SelfCompare ==
    (Compared("compare_fingerprints") /\ cmpIn.baseline = cmpIn.current) =>
        /\ FpSummary.total_changes = JInt(0)
        /\ \A s \in Severities : FpSummary[s] = JInt(0)
        /\ DOMAIN FpChanges = {}

C11_Witness ==
    /\ Compared("compare_fingerprints")
    /\ cmpIn.baseline = cmpIn.current
    /\ DOMAIN CollectorsIn(cmpIn.baseline) = FpNames
    /\ cmpIn.ignore_collectors = None
    /\ FpSummary.total_changes = JInt(0)

\* C12: total_changes is the number of change entries and the sum of the four
\* severity counts, and each severity count is the number of entries of that
\* severity.
C12_SummaryCounts ==
    Compared("compare_fingerprints") =>
        /\ FpSummary.total_changes = JInt(Cardinality(DOMAIN FpChanges))
        /\ FpSummary.total_changes[2] = FpSummary.critical[2] + FpSummary.high[2]
                                          + FpSummary.medium[2] + FpSummary.low[2]
        /\ \A s \in Severities :
              FpSummary[s] = JInt(Cardinality({k \in DOMAIN FpChanges :
                                                 FpChanges[k][2].severity = JStr(s)}))

C12_Witness ==
    /\ Compared("compare_fingerprints")
    /\ cmpIn.ignore_collectors = <<"SSHConfigCollector">>
    /\ DOMAIN CollectorsIn(cmpIn.baseline) = {"SSHConfigCollector", "KernelExtensionsCollector"}
    /\ DOMAIN CollectorsIn(cmpIn.current) = FpNames
    /\ CollectorsIn(cmpIn.baseline)["SSHConfigCollector"]
          # CollectorsIn(cmpIn.current)["SSHConfigCollector"]
    /\ CollectorsIn(cmpIn.baseline)["KernelExtensionsCollector"] = JList(<<JStr("[]")>>)
    /\ CollectorsIn(cmpIn.current)["KernelExtensionsCollector"] = JList(<<JList(<<>>)>>)
    /\ DOMAIN FpChanges = {"InstalledAppsCollector"}
    /\ FpSummary = [total_changes |-> JInt(1), critical |-> JInt(0), high |-> JInt(0),
                    medium |-> JInt(0), low |-> JInt(1)]

\* C13: a collector only in current gives a collector_added change of severity
\* low with the current data, a collector only in baseline a collector_removed
\* change of severity medium with the baseline data, whatever its name.
C13_AddedRemoved ==
    Compared("compare_fingerprints") =>
        LET bc == CollectorsIn(cmpIn.baseline)
            cc == CollectorsIn(cmpIn.current)
        IN  /\ \A n \in (DOMAIN cc \ DOMAIN bc) \ FpIgnored :
                  /\ n \in DOMAIN FpChanges
                  /\ FpChanges[n] = JDict([severity |-> JStr("low"),
                                           type |-> JStr("collector_added"),
                                           data |-> cc[n]])
            /\ \A n \in (DOMAIN bc \ DOMAIN cc) \ FpIgnored :
                  /\ n \in DOMAIN FpChanges
                  /\ FpChanges[n] = JDict([severity |-> JStr("medium"),
                                           type |-> JStr("collector_removed"),
                                           data |-> bc[n]])

C13_Witness ==
    /\ Compared("compare_fingerprints")
    /\ cmpIn.ignore_collectors = <<>>
    /\ DOMAIN CollectorsIn(cmpIn.baseline) = {"KernelExtensionsCollector"}
    /\ DOMAIN CollectorsIn(cmpIn.current) = {"SSHConfigCollector"}
    /\ DOMAIN FpChanges = {"KernelExtensionsCollector", "SSHConfigCollector"}
    /\ FpChanges["SSHConfigCollector"][2].severity = JStr("low")
    /\ FpChanges["KernelExtensionsCollector"][2].severity = JStr("medium")

\* The severity table.
SeverityTable(name, kind) ==
    IF name \in {"SecuritySettingsCollector", "GatekeeperCollector", "SSHConfigCollector"}
    THEN "critical"
    ELSE IF name \in {"KernelExtensionsCollector", "LaunchAgentsCollector",
                      "UserAccountsCollector", "NetworkConfigCollector"}
    THEN "high"
    ELSE IF kind = "removed" THEN "medium"
    ELSE "low"

\* C14: classify_severity follows the table (critical names, then high names,
\* then medium for REMOVED, else low), and every 'modified' entry of
\* compare_fingerprints carries classify_severity(name, MODIFIED).
C14_SeverityTable ==
    /\ Compared("classify_severity") =>
          cmpOut = JStr(SeverityTable(cmpIn.collector_name, cmpIn.change_type))
    /\ Compared("compare_fingerprints") =>
          \A n \in DOMAIN FpChanges :
             FpChanges[n][2].type = JStr("modified") =>
                FpChanges[n][2].severity = JStr(SeverityTable(n, "modified"))

C14_Witness ==
    /\ Compared("compare_fingerprints")
    /\ DOMAIN FpChanges = FpNames
    /\ \A n \in FpNames : FpChanges[n][2].type = JStr("modified")
    /\ FpChanges["SSHConfigCollector"][2].severity = JStr("critical")
    /\ FpChanges["KernelExtensionsCollector"][2].severity = JStr("high")
    /\ FpChanges["InstalledAppsCollector"][2].severity = JStr("low")

\* A document without the collectors named in I.
Without(d, I) ==
    IF "collectors" \in DOMAIN d[2]
    THEN JDict([d[2] EXCEPT !.collectors =
                   JDict([n \in DOMAIN d[2].collectors[2] \ I |-> d[2].collectors[2][n]])])
    ELSE d

\* C15: no change entry is made for an ignored name, and summary and changes
\* equal those of comparing the two documents without the ignored collectors.
C15_IgnoreSet ==
    Compared("compare_fingerprints") =>
        /\ DOMAIN FpChanges \cap FpIgnored = {}
        /\ \E it \in IterationOrders :
              LET plain == compare_fingerprints(Without(cmpIn.baseline, FpIgnored),
                                                Without(cmpIn.current, FpIgnored),
                                                None, "t1", it)
              IN  /\ cmpOut[2].summary = plain[2].summary
                  /\ cmpOut[2].changes = plain[2].changes

C15_Witness ==
    /\ Compared("compare_fingerprints")
    /\ cmpIn.ignore_collectors
          = <<"InstalledAppsCollector", "NoSuchCollector", "KernelExtensionsCollector">>
    /\ DOMAIN CollectorsIn(cmpIn.baseline) = FpNames
    /\ DOMAIN CollectorsIn(cmpIn.current) = {"InstalledAppsCollector"}
    /\ CollectorsIn(cmpIn.baseline)["InstalledAppsCollector"]
          # CollectorsIn(cmpIn.current)["InstalledAppsCollector"]
    /\ DOMAIN FpChanges = {"SSHConfigCollector"}
    /\ FpChanges["SSHConfigCollector"][2].type = JStr("collector_removed")

(***************************************************************************)
(* utils/crypto.py on objects.  A dict or list is an object of a heap (a   *)
(* sequence of objects, an object's address being its index) that holds    *)
(* its scalar members as values and its dict and list members as           *)
(* references, so that copying an object, writing a member of a copy and   *)
(* writing a member of the original are different things.                  *)
(***************************************************************************)
Ref(id) == <<"ref", id>>
IsRef(v) == v[1] = "ref"
IsContainer(v) == IsList(v) \/ IsDict(v)

RECURSIVE ValueAt(_, _)
ValueAt(v, path) == IF path = <<>> THEN v ELSE ValueAt(v[2][Head(path)], Tail(path))

ChildPaths(doc, path) ==
    {Append(path, k) : k \in {j \in DOMAIN ValueAt(doc, path)[2] :
                                 IsContainer(ValueAt(doc, path)[2][j])}}

RECURSIVE PathsFrom(_, _)
PathsFrom(doc, frontier) ==
    IF frontier = {} THEN {}
    ELSE frontier \cup PathsFrom(doc, UNION {ChildPaths(doc, p) : p \in frontier})

\* The objects of a document: one per dict or list in it.
ObjectPaths(doc) == KeySeq(PathsFrom(doc, {<<>>}))
AddressOf(paths, path) == CHOOSE i \in DOMAIN paths : paths[i] = path

ObjectAt(doc, paths, path) ==
    <<ValueAt(doc, path)[1],
      [k \in DOMAIN ValueAt(doc, path)[2] |->
          IF IsContainer(ValueAt(doc, path)[2][k])
          THEN Ref(AddressOf(paths, Append(path, k)))
          ELSE ValueAt(doc, path)[2][k]]>>

HeapOf(doc) == [i \in DOMAIN ObjectPaths(doc) |-> ObjectAt(doc, ObjectPaths(doc), ObjectPaths(doc)[i])]
RootOf(doc) == AddressOf(ObjectPaths(doc), <<>>)

\* The value an object or scalar stands for.
RECURSIVE Deref(_, _)
Deref(h, v) ==
    IF ~IsRef(v) THEN v
    ELSE <<h[v[2]][1], [k \in DOMAIN h[v[2]][2] |-> Deref(h, h[v[2]][2][k])]>>

\* obj.copy(): a new object (at address Len(h) + 1) with the same members
copy(h, id) == Append(h, h[id])

\* obj[key] = value
Store(h, id, key, value) ==
    [i \in DOMAIN h |->
        IF i = id
        THEN <<h[id][1], [k \in DOMAIN h[id][2] \cup {key} |->
                            IF k = key THEN value ELSE h[id][2][k]]>>
        ELSE h[i]]

\* key in obj and isinstance(obj[key], kind), for a dict obj
HasMember(h, id, key, kind) ==
    /\ h[id][1] = "dict"
    /\ key \in DOMAIN h[id][2]
    /\ IsRef(h[id][2][key])
    /\ h[h[id][2][key][2]][1] = kind

Member(h, id, key) == h[h[id][2][key][2]]

\* net_config[key] = [hash_sensitive_value(line) if line else "" for line in ...]
hash_list_member_in_place(h, id, key) ==
    IF HasMember(h, id, key, "list")
    THEN [i \in DOMAIN h |-> IF i = h[id][2][key][2] THEN HashLines(h[i]) ELSE h[i]]
    ELSE h

hash_list_member(h, id, key) ==
    IF HasMember(h, id, key, "list")
    THEN Store(Append(h, HashLines(Member(h, id, key))), id, key, Ref(Len(h) + 1))
    ELSE h

\* net_config["ip_addresses"] = {service: hash_sensitive_value(ip) ...}
hash_dict_member(h, id, key) ==
    IF HasMember(h, id, key, "dict")
    THEN Store(Append(h, JDict([s \in DOMAIN Member(h, id, key)[2] |->
                                   hash_sensitive_value(Member(h, id, key)[2][s])])),
               id, key, Ref(Len(h) + 1))
    ELSE h

\* The hashers, on the object at id: each leaves its result at Len(h) + 1.
\* (List data given to the two dict hashers holds none of their field names.)
on_hash_network_config(h, id) ==
    hash_list_member(
        hash_list_member(
            hash_list_member(
                hash_dict_member(copy(h, id), Len(h) + 1, "ip_addresses"),
                Len(h) + 1, "arp_cache"),
            Len(h) + 1, "routing_table"),
        Len(h) + 1, "wifi_networks")

on_hash_ssh_config(h, id) == hash_list_member(copy(h, id), Len(h) + 1, "known_hosts")

on_hash_hosts_file(h, id) == Append(h, hash_hosts_file(h[id]))

COLLECTOR_HASHERS == <<"NetworkConfigCollector", "SSHConfigCollector", "HostsFileCollector">>

Hasher(name, h, id) ==
    CASE name = "NetworkConfigCollector" -> on_hash_network_config(h, id)
      [] name = "SSHConfigCollector" -> on_hash_ssh_config(h, id)
      [] name = "HostsFileCollector" -> on_hash_hosts_file(h, id)

\* if collector_name in hashed_collectors: ... hashed_collectors[name] = hasher(data)
apply_hasher(h, hc, name) ==
    IF name \in DOMAIN h[hc][2] /\ IsRef(h[hc][2][name])
    THEN Store(Hasher(name, h, h[hc][2][name][2]), hc, name, Ref(Len(h) + 1))
    ELSE h

RECURSIVE apply_hashers(_, _, _)
apply_hashers(h, hc, names) ==
    IF names = <<>> THEN h
    ELSE apply_hashers(apply_hasher(h, hc, Head(names)), hc, Tail(names))

\* hash_fingerprint_data(data): the heap after the call and the object returned.
\* hashed_data is at Len(h) + 1 and hashed_collectors at Len(h) + 2.
on_hash_fingerprint_data(h, data) ==
    IF ~HasMember(copy(h, data), Len(h) + 1, "collectors", "dict")
    THEN [heap |-> copy(h, data), ref |-> Len(h) + 1]
    ELSE [heap |-> Store(apply_hashers(copy(copy(h, data), h[data][2]["collectors"][2]),
                                       Len(h) + 2, COLLECTOR_HASHERS),
                         Len(h) + 1, "collectors", Ref(Len(h) + 2)),
          ref |-> Len(h) + 1]

(***************************************************************************)
(* hash_fingerprint_data applied to fingerprint documents whose collectors *)
(* are drawn from the three sensitive collectors and one other, each with  *)
(* its collected data or the error record create_fingerprint stores for a  *)
(* failed collector.                                                       *)
(***************************************************************************)
ErrorRecord == JDict([error |-> JStr("a")])

HashNames == {"NetworkConfigCollector", "SSHConfigCollector", "HostsFileCollector",
              "InstalledAppsCollector"}

HashData(name) ==
    CASE name = "NetworkConfigCollector" ->
            {JDict([ip_addresses |-> JDict([a |-> JStr("1")]),
                    arp_cache |-> JList(<<JStr("a"), JStr("")>>),
                    routing_table |-> JList(<<JStr("1")>>),
                    wifi_networks |-> JList(<<>>),
                    dns_servers |-> JList(<<JStr("1")>>),
                    firewall_status |-> JStr("1")]),
             ErrorRecord}
      [] name = "SSHConfigCollector" ->
            {JDict([sshd_config |-> JList(<<JStr("a")>>),
                    known_hosts |-> JList(<<JStr("a"), JStr("")>>)]),
             ErrorRecord}
      [] name = "HostsFileCollector" ->
            {JList(<<JStr("#c"), JStr("1"), JStr("")>>), JList(<<>>), ErrorRecord}
      [] name = "InstalledAppsCollector" ->
            {JList(<<JStr("a")>>), ErrorRecord}

HashCollectors ==
    UNION {{f \in [K -> UNION {HashData(n) : n \in K}] : \A n \in K : f[n] \in HashData(n)} :
             K \in SUBSET HashNames}

HashDocs == {FpDoc(f) : f \in HashCollectors}
                \cup {JDict([timestamp |-> JStr("t0")]),
                      JDict([timestamp |-> JStr("t0"), collectors |-> JNone])}

HashCall(data) ==
    [fn |-> "hash_fingerprint_data", data |-> data,
     heap |-> HeapOf(data), ref |-> RootOf(data)]

InitHash ==
    /\ host = HostUp
    /\ heap = [r \in RegIds |-> <<>>]
    /\ IdleRun
    /\ cmpOut = None /\ disk = None
    /\ \E d \in HashDocs : cmpIn = HashCall(d)

HashFingerprintData ==
    /\ cmpIn.fn = "hash_fingerprint_data" /\ cmpOut = None
    /\ cmpOut' = <<"object", on_hash_fingerprint_data(cmpIn.heap, cmpIn.ref)>>
    /\ UNCHANGED <<regVars, cmpIn, disk>>

NextHash == HashFingerprintData

SpecHash == InitHash /\ [][NextHash]_vars

Hashed == cmpOut # None /\ cmpIn.fn = "hash_fingerprint_data"
HeapAfter == cmpOut[2].heap
HashedData == Deref(HeapAfter, Ref(cmpOut[2].ref))

\* a and b have the same type at every position (a list the same length, a
\* mapping the same keys) and differ only in leaf strings.
RECURSIVE SameShape(_, _)
SameShape(a, b) ==
    /\ a[1] = b[1]
    /\ IF IsContainer(a)
       THEN /\ DOMAIN a[2] = DOMAIN b[2]
            /\ \A k \in DOMAIN a[2] : SameShape(a[2][k], b[2][k])
       ELSE IsStr(a) \/ a = b

\* C16: redaction preserves shape: for every document, error records of the
\* sensitive collectors included, the returned document has the same
\* collector keys and the same type at every position as the input, and only
\* leaf strings differ.
C16_ShapePreserved == Hashed => SameShape(cmpIn.data, HashedData)

\* C17: hash_fingerprint_data never mutates its input: after the call every
\* object of the input document (the document, its collectors mapping, every
\* nested mapping and list) holds what it held before, and the returned
\* document (and, when it has one, its collectors mapping) is a new object.
C17_InputUnchanged ==
    Hashed =>
        /\ \A id \in DOMAIN cmpIn.heap : HeapAfter[id] = cmpIn.heap[id]
        /\ Deref(HeapAfter, Ref(cmpIn.ref)) = cmpIn.data
        /\ cmpOut[2].ref \notin DOMAIN cmpIn.heap
        /\ \A n \in DOMAIN HeapAfter[cmpOut[2].ref][2] :
              Deref(HeapAfter, HeapAfter[cmpOut[2].ref][2][n]) # Deref(cmpIn.heap, cmpIn.heap[cmpIn.ref][2][n])
                 => HeapAfter[cmpOut[2].ref][2][n][2] \notin DOMAIN cmpIn.heap

\* A call that redacted known_hosts and an ARP line in the returned document
\* while the input still holds the original lines.
C17_Witness ==
    /\ Hashed
    /\ "collectors" \in DOMAIN cmpIn.data[2]
    /\ IsDict(cmpIn.data[2].collectors)
    /\ {"SSHConfigCollector", "NetworkConfigCollector"} \subseteq DOMAIN cmpIn.data[2].collectors[2]
    /\ HashedData[2].collectors[2]["SSHConfigCollector"] # ErrorRecord
    /\ HashedData[2].collectors[2]["NetworkConfigCollector"] # ErrorRecord
    /\ HashedData[2].collectors[2]["SSHConfigCollector"][2].known_hosts[2][1] = JStr("sha3:a")
    /\ HashedData[2].collectors[2]["NetworkConfigCollector"][2].arp_cache[2][1] = JStr("sha3:a")
    /\ Deref(HeapAfter, Ref(cmpIn.ref))[2].collectors[2]["SSHConfigCollector"][2].known_hosts[2][1] = JStr("a")
    /\ Deref(HeapAfter, Ref(cmpIn.ref))[2].collectors[2]["NetworkConfigCollector"][2].arp_cache[2][1] = JStr("a")

\* What the redaction rules say of one collector's data: the sensitive
\* leaves hashed, everything else as it was.
SensitiveListFields(name) ==
    CASE name = "NetworkConfigCollector" -> {"arp_cache", "routing_table", "wifi_networks"}
      [] name = "SSHConfigCollector" -> {"known_hosts"}
      [] OTHER -> {}
SensitiveDictFields(name) ==
    CASE name = "NetworkConfigCollector" -> {"ip_addresses"}
      [] OTHER -> {}

HostsLineRedacted(line) ==
    IF IsStr(line) /\ line # JStr("") /\ ~startswith(line[2], "#")
    THEN hash_sensitive_value(line) ELSE line

FieldRedacted(name, k, v) ==
    IF k \in SensitiveListFields(name) /\ IsList(v)
    THEN JList([i \in DOMAIN v[2] |-> hash_sensitive_value(v[2][i])])
    ELSE IF k \in SensitiveDictFields(name) /\ IsDict(v)
    THEN JDict([s \in DOMAIN v[2] |-> hash_sensitive_value(v[2][s])])
    ELSE v

Redacted(name, v) ==
    IF name = "HostsFileCollector" /\ IsList(v)
    THEN JList([i \in DOMAIN v[2] |-> HostsLineRedacted(v[2][i])])
    ELSE IF name \in {"NetworkConfigCollector", "SSHConfigCollector"} /\ IsDict(v)
    THEN JDict([k \in DOMAIN v[2] |-> FieldRedacted(name, k, v[2][k])])
    ELSE v

HashContract ==
    \A v \in {JStr(""), JStr("a"), JStr("1"), JStr("#c")} :
        /\ (v = JStr("") => hash_sensitive_value(v) = JStr(""))
        /\ (v # JStr("") => hash_sensitive_value(v) # v)

\* C18: hash_fingerprint_data rewrites exactly the sensitive leaves: the
\* ip_addresses values and the arp_cache, routing_table and wifi_networks
\* lines of NetworkConfigCollector, the known_hosts lines of
\* SSHConfigCollector and the non-empty, non-comment lines of
\* HostsFileCollector become their hash_sensitive_value ("" stays "", a
\* non-empty value never stays itself); every other collector, every other
\* field of those three collectors and the hosts comment lines are returned
\* unchanged.
C18_ExactlySensitiveLeaves ==
    Hashed =>
        /\ HashContract
        /\ DOMAIN HashedData[2] = DOMAIN cmpIn.data[2]
        /\ \A k \in DOMAIN cmpIn.data[2] \ {"collectors"} : HashedData[2][k] = cmpIn.data[2][k]
        /\ "collectors" \in DOMAIN cmpIn.data[2] =>
              IF IsDict(cmpIn.data[2].collectors)
              THEN /\ IsDict(HashedData[2].collectors)
                   /\ DOMAIN HashedData[2].collectors[2] = DOMAIN cmpIn.data[2].collectors[2]
                   /\ \A n \in DOMAIN cmpIn.data[2].collectors[2] :
                         HashedData[2].collectors[2][n] = Redacted(n, cmpIn.data[2].collectors[2][n])
              ELSE HashedData[2].collectors = cmpIn.data[2].collectors

(***************************************************************************)
(* json.loads of the text json.dumps writes: the characters are read one   *)
(* by one onto a stack of the values under construction.                   *)
(***************************************************************************)
\* The strings the documents of the model hold.  "x..." stands for a run of
\* max_size characters x, kept as one symbol.
HugeString == "x..."
\* a string of one opening bracket more than validate_json_safe accepts
ManyBrackets == "[..."
KnownStrings ==
    {"", "a", "b", "1", "[]", "#c", "None", "error", "a\"\\", HugeString, ManyBrackets,
     "_integrity_hash"}
StrOf(cs) == CHOOSE s \in KnownStrings : Chars(s) = cs

IsDigit(c) == c \in {"0", "1", "2", "3", "4", "5", "6", "7", "8", "9"}
DigitValue(c) == CharCode(c) - 48

Pop(st) == SubSeq(st, 1, Len(st) - 1)
SetTop(st, frame) == [st EXCEPT ![Len(st)] = frame]
DictPut(f, k, v) == [x \in DOMAIN f \cup {k} |-> IF x = k THEN v ELSE f[x]]
DictPop(f, k) == [x \in DOMAIN f \ {k} |-> f[x]]

\* A finished value goes to the container under construction: appended to a
\* list, taken as the key or stored under the pending key of a dict.
Put(st, v) ==
    LET top == st[Len(st)]
    IN  CASE top[1] = "top" -> SetTop(st, <<"top", v>>)
          [] top[1] = "list" -> SetTop(st, <<"list", Append(top[2], v)>>)
          [] top[1] = "dict" ->
                IF top[3] = <<>> THEN SetTop(st, <<"dict", top[2], <<v[2]>>>>)
                ELSE SetTop(st, <<"dict", DictPut(top[2], top[3][1], v), <<>>>>)

Step(c, st) ==
    LET top == st[Len(st)]
    IN  CASE top[1] = "str" ->
                IF top[3] THEN SetTop(st, <<"str", Append(top[2], c), FALSE>>)
                ELSE IF c = "\\" THEN SetTop(st, <<"str", top[2], TRUE>>)
                ELSE IF c = "\"" THEN Put(Pop(st), JStr(StrOf(top[2])))
                ELSE SetTop(st, <<"str", Append(top[2], c), FALSE>>)
          [] top[1] = "int" ->
                IF IsDigit(c) THEN SetTop(st, <<"int", top[2] * 10 + DigitValue(c), top[3]>>)
                ELSE Put(Pop(st), JInt(top[3] * top[2]))
          [] top[1] = "null" ->
                IF top[2] = 3 THEN Put(Pop(st), JNone) ELSE SetTop(st, <<"null", top[2] + 1>>)
          [] OTHER ->
                CASE c = "\"" -> Append(st, <<"str", <<>>, FALSE>>)
                  [] c = "-" -> Append(st, <<"int", 0, -1>>)
                  [] IsDigit(c) -> Append(st, <<"int", DigitValue(c), 1>>)
                  [] c = "n" -> Append(st, <<"null", 1>>)
                  [] c = "[" -> Append(st, <<"list", <<>>>>)
                  [] c = "{" -> Append(st, <<"dict", EmptyDict, <<>>>>)
                  [] c = "]" -> Put(Pop(st), JList(top[2]))
                  [] c = "}" -> Put(Pop(st), JDict(top[2]))
                  [] OTHER -> st

\* The character that ends a number is read again after the number.
Consumed(c, st) == ~(st[Len(st)][1] = "int" /\ ~IsDigit(c))

RECURSIVE Parse(_, _)
Parse(cs, st) ==
    IF cs = <<>> THEN st
    ELSE Parse(IF Consumed(Head(cs), st) THEN Tail(cs) ELSE cs, Step(Head(cs), st))

json_loads(cs) ==
    LET st == Parse(cs, <<<<"top", JNone>>>>)
    IN  IF st[Len(st)][1] = "int" THEN JInt(st[Len(st)][3] * st[Len(st)][2]) ELSE st[1][2]

(***************************************************************************)
(* utils/crypto.py: FingerprintEncryption.  Byte strings are kept          *)
(* symbolic: PBKDF2 gives one key per (password, salt); AES-GCM decrypts   *)
(* a ciphertext only under the key and nonce it was made with; a base64    *)
(* text is the bytes it decodes to and how it is written.                  *)
(***************************************************************************)
Salts == {"s1", "s2"}
Nonces == {"n1", "n2"}

\* FingerprintEncryption(password)
FingerprintEncryption_random_key(password) ==
    Returned([password |-> IF Falsy(password) THEN "random" ELSE password[2]])
FingerprintEncryption(password) ==
    IF Falsy(password)
    THEN Raised("ValueError", "A password is required for encryption.")
    ELSE Returned([password |-> password[2]])

derive_key(self, salt) == <<"pbkdf2", self.password, salt>>

aesgcm_encrypt_under_first_nonce(key, nonce, plaintext) == <<"aesgcm", key, "n1", plaintext>>
aesgcm_encrypt(key, nonce, plaintext) == <<"aesgcm", key, nonce, plaintext>>

aesgcm_decrypt_unauthenticated(key, nonce, ciphertext) == Returned(ciphertext[4])
aesgcm_decrypt(key, nonce, ciphertext) ==
    IF ciphertext[1] = "aesgcm" /\ ciphertext[2] = key /\ ciphertext[3] = nonce
    THEN Returned(ciphertext[4])
    ELSE Raised("InvalidTag", "")

\* base64.b64encode(bytes).decode("utf-8"); b64decode discards characters
\* outside the alphabet and rejects a text whose padding is wrong.
b64encode(bytes) == <<"base64", bytes, "canonical">>
b64decode(text) ==
    IF text[3] = "truncated" THEN Raised("binascii.Error", "Incorrect padding")
    ELSE Returned(text[2])

encrypt(self, data, salt, nonce) ==
    JDict([encrypted_data |->
               JStr(b64encode(aesgcm_encrypt(derive_key(self, salt), nonce, json_dumps(data)))),
           nonce |-> JStr(b64encode(nonce)),
           salt |-> JStr(b64encode(salt)),
           version |-> JStr("1.0")])

\* encrypted_data[key], decoded (the members of an envelope are base64 texts)
Decoded(encrypted_data, key) ==
    IF ~IsDict(encrypted_data) THEN Raised("TypeError", "indices must be integers")
    ELSE IF key \notin DOMAIN encrypted_data[2] THEN Raised("KeyError", "'" \o key \o "'")
    ELSE b64decode(encrypted_data[2][key][2])

\* the body of decrypt's try
decrypt_try(self, encrypted_data) ==
    IF ~IsReturn(Decoded(encrypted_data, "encrypted_data"))
    THEN Decoded(encrypted_data, "encrypted_data")
    ELSE IF ~IsReturn(Decoded(encrypted_data, "nonce")) THEN Decoded(encrypted_data, "nonce")
    ELSE IF ~IsReturn(Decoded(encrypted_data, "salt")) THEN Decoded(encrypted_data, "salt")
    ELSE IF ~IsReturn(aesgcm_decrypt(derive_key(self, Decoded(encrypted_data, "salt")[2]),
                                     Decoded(encrypted_data, "nonce")[2],
                                     Decoded(encrypted_data, "encrypted_data")[2]))
    THEN aesgcm_decrypt(derive_key(self, Decoded(encrypted_data, "salt")[2]),
                        Decoded(encrypted_data, "nonce")[2],
                        Decoded(encrypted_data, "encrypted_data")[2])
    ELSE Returned(json_loads(
            aesgcm_decrypt(derive_key(self, Decoded(encrypted_data, "salt")[2]),
                           Decoded(encrypted_data, "nonce")[2],
                           Decoded(encrypted_data, "encrypted_data")[2])[2]))

DecryptionFailed(exc) == Raised("ValueError", "Decryption failed: " \o exc.msg)

decrypt(self, encrypted_data) ==
    IF IsReturn(decrypt_try(self, encrypted_data)) \/ ~IsException(decrypt_try(self, encrypted_data)[2])
    THEN decrypt_try(self, encrypted_data)
    ELSE DecryptionFailed(decrypt_try(self, encrypted_data)[2])

\* compute_integrity_hash: HMAC-SHA256 of the sorted-key serialization
derive_hmac_key(password) == <<"pbkdf2", password[2], "macos-fingerprint-hmac-salt-v1">>
DEFAULT_INTEGRITY_KEY == <<"bytes", "macos-fingerprint-integrity-v1", "">>

compute_integrity_hash(data, password) ==
    <<"hmac-sha256",
      IF ~Falsy(password) THEN derive_hmac_key(password) ELSE DEFAULT_INTEGRITY_KEY,
      json_dumps(data)>>

(***************************************************************************)
(* core/storage.py and the file helpers of utils/commands.py.  The file    *)
(* is kept as the value its JSON text denotes, with the length of the text *)
(* and the number of opening braces and brackets in it.                    *)
(***************************************************************************)
safe_read_max_size == 10485760
json_max_size == 104857600
max_nesting == 1000

RECURSIVE Sum(_)
Sum(ns) == IF ns = <<>> THEN 0 ELSE Head(ns) + Sum(Tail(ns))

\* len(text) and text.count(c)
Width(c) ==
    IF c = HugeString THEN safe_read_max_size
    ELSE IF c = ManyBrackets THEN max_nesting + 1 ELSE 1
TextLen(cs) == Sum([i \in DOMAIN cs |-> Width(cs[i])])
Occurrences(ch, c) ==
    IF ch = c THEN 1 ELSE IF ch = ManyBrackets /\ c = "[" THEN max_nesting + 1 ELSE 0
Count(cs, c) == Sum([i \in DOMAIN cs |-> Occurrences(cs[i], c)])

b64_len(n) == 4 * ((n + 2) \div 3)

\* the length of json.dumps(v, indent=2): a container writes each item on a
\* line of its own, indented by two spaces per level
container_len(lens, depth) ==
    IF lens = <<>> THEN 2
    ELSE 1 + Sum(lens) + Len(lens) * (1 + 2 * (depth + 1)) + (Len(lens) - 1)
           + 1 + 2 * depth + 1

RECURSIVE indent_len(_, _)
indent_len(v, depth) ==
    CASE IsStr(v) -> TextLen(JsonString(v[2]))
      [] IsInt(v) -> Len(Digits(v[2]))
      [] v = JNone -> 4
      [] IsList(v) ->
            container_len([i \in DOMAIN v[2] |-> indent_len(v[2][i], depth + 1)], depth)
      [] IsDict(v) ->
            container_len([i \in DOMAIN KeySeq(DOMAIN v[2]) |->
                              TextLen(JsonString(KeySeq(DOMAIN v[2])[i])) + 2
                                  + indent_len(v[2][KeySeq(DOMAIN v[2])[i]], depth + 1)],
                          depth)

\* json.dumps(encrypted_data, indent=2): four members, three of them base64
\* texts of the ciphertext (plaintext and 16-byte tag), the 12-byte nonce and
\* the 16-byte salt
EnvelopeText(envelope) ==
    [json |-> envelope,
     size |-> 75 + b64_len(TextLen(envelope[2].encrypted_data[2][2][4]) + 16)
                 + b64_len(12) + b64_len(16),
     braces |-> 1, brackets |-> 0]

\* json.dumps(data_with_hash, indent=2): the members of the document other
\* than "_integrity_hash", and "_integrity_hash": a 64-digit hex string, if
\* there is one
UnencryptedText(data, tags) ==
    [json |-> JDict(IF tags = <<>> THEN data
                    ELSE DictPut(data, "_integrity_hash", JStr(tags[1]))),
     size |-> container_len(
                 [i \in DOMAIN KeySeq(DOMAIN data) |->
                     TextLen(JsonString(KeySeq(DOMAIN data)[i])) + 2
                         + indent_len(data[KeySeq(DOMAIN data)[i]], 1)]
                    \o [i \in DOMAIN tags |-> 17 + 2 + 66], 0),
     braces |-> Count(json_dumps(JDict(data)), "{"),
     brackets |-> Count(json_dumps(JDict(data)), "[")]

\* data_with_hash = fingerprint.copy(); data_with_hash["_integrity_hash"] = ...
WithHashText(fingerprint, integrity_hash) ==
    UnencryptedText(DictPop(fingerprint[2], "_integrity_hash"), <<integrity_hash>>)

File(content) == <<"file", content>>

\* safe_write_file: the file system takes the write or refuses it
safe_write_file(d, content, writable) ==
    IF writable THEN [returned |-> TRUE, disk |-> File(content)]
    ELSE [returned |-> FALSE, disk |-> d]

save_fingerprint(d, fingerprint, encrypt_, password, salt, nonce, writable) ==
    IF encrypt_
    THEN IF ~IsReturn(FingerprintEncryption(password))
         THEN [returned |-> FALSE, disk |-> d]
         ELSE safe_write_file(d, EnvelopeText(encrypt(FingerprintEncryption(password)[2],
                                                      fingerprint, salt, nonce)),
                              writable)
    ELSE safe_write_file(d, WithHashText(fingerprint,
                                         compute_integrity_hash(fingerprint, password)),
                         writable)

\* safe_read_file: None for a missing file and for one larger than max_size
safe_read_file(d) ==
    IF d = None THEN None
    ELSE IF d[2].size > safe_read_max_size THEN None
    ELSE d

\* validate_json_safe raises for an empty, an oversized or a deeply nested text
validate_json_safe(content) ==
    IF content[2].size = 0 THEN Raised("ValueError", "JSON string is empty")
    ELSE IF content[2].size > json_max_size THEN Raised("ValueError", "JSON string too large")
    ELSE IF content[2].braces > max_nesting \/ content[2].brackets > max_nesting
    THEN Raised("ValueError", "JSON has excessive nesting")
    ELSE Returned(TRUE)

NotJson == <<"invalid", "not JSON">>
json_loads_file(content) ==
    IF content[2].json = NotJson THEN Raised("JSONDecodeError", "Expecting value")
    ELSE Returned(content[2].json)

Loaded(value, log) == [returned |-> value, log |-> log]

\* the unencrypted branch: the stored tag is taken out and compared
verify_integrity_fatal(data, password) ==
    IF IsDict(data) /\ "_integrity_hash" \in DOMAIN data[2]
    THEN IF data[2]["_integrity_hash"][2]
              # compute_integrity_hash(JDict(DictPop(data[2], "_integrity_hash")), password)
         THEN Loaded(None, <<"Integrity check failed - data may be corrupted">>)
         ELSE Loaded(JDict(DictPop(data[2], "_integrity_hash")), <<>>)
    ELSE Loaded(data, <<>>)
verify_integrity(data, password) ==
    IF IsDict(data) /\ "_integrity_hash" \in DOMAIN data[2]
    THEN Loaded(JDict(DictPop(data[2], "_integrity_hash")),
                IF data[2]["_integrity_hash"][2]
                     # compute_integrity_hash(JDict(DictPop(data[2], "_integrity_hash")), password)
                THEN <<"Integrity check failed - data may be corrupted">>
                ELSE <<>>)
    ELSE Loaded(data, <<>>)

load_fingerprint_unkeyed(d, encrypted, password) ==
    IF safe_read_file(d) = None \/ d[2].size = 0
    THEN Loaded(None, <<"File not found or could not be read">>)
    ELSE IF ~IsReturn(validate_json_safe(d))
    THEN Loaded(None, <<"Error loading fingerprint">>)
    ELSE IF ~IsReturn(json_loads_file(d))
    THEN Loaded(None, <<"Invalid JSON">>)
    ELSE IF encrypted
    THEN IF ~IsReturn(FingerprintEncryption(password))
         THEN Loaded(None, <<"Error loading fingerprint">>)
         ELSE IF ~IsReturn(decrypt(FingerprintEncryption(password)[2], json_loads_file(d)[2]))
         THEN Loaded(None, <<"Error loading fingerprint">>)
         ELSE Loaded(decrypt(FingerprintEncryption(password)[2], json_loads_file(d)[2])[2], <<>>)
    ELSE verify_integrity(json_loads_file(d)[2], JNone)
load_fingerprint(d, encrypted, password) ==
    IF safe_read_file(d) = None \/ d[2].size = 0
    THEN Loaded(None, <<"File not found or could not be read">>)
    ELSE IF ~IsReturn(validate_json_safe(d))
    THEN Loaded(None, <<"Error loading fingerprint">>)
    ELSE IF ~IsReturn(json_loads_file(d))
    THEN Loaded(None, <<"Invalid JSON">>)
    ELSE IF encrypted
    THEN IF ~IsReturn(FingerprintEncryption(password))
         THEN Loaded(None, <<"Error loading fingerprint">>)
         ELSE IF ~IsReturn(decrypt(FingerprintEncryption(password)[2], json_loads_file(d)[2]))
         THEN Loaded(None, <<"Error loading fingerprint">>)
         ELSE Loaded(decrypt(FingerprintEncryption(password)[2], json_loads_file(d)[2])[2], <<>>)
    ELSE verify_integrity(json_loads_file(d)[2], password)

(***************************************************************************)
(* Encryption and storage: a document is encrypted and the envelope        *)
(* decrypted, as it is or modified; or the document is saved, the file is  *)
(* possibly modified or removed, and it is loaded.                         *)
(***************************************************************************)
EncDocs ==
    {JDict(EmptyDict),
     JDict([a |-> JStr("a")]),
     JDict([a |-> JInt(-12), b |-> JList(<<JStr("[]"), JNone>>)]),
     JDict([b |-> JDict([a |-> JStr("a\"\\")])]),
     JDict([a |-> JStr(""), b |-> JList(<<>>)]),
     JDict([a |-> JStr(HugeString)]),
     JDict([a |-> JStr(ManyBrackets)]),
     JDict(DictPut([a |-> JInt(1)], "_integrity_hash", JStr("a")))}

PasswordArgs == {JNone, JStr(""), JStr("p"), JStr("q")}

\* What can happen to an envelope between encrypt and decrypt.
ReadFields == {"encrypted_data", "nonce", "salt"}
ByteModifications == {"ciphertext", "nonce", "salt"}
Removals == {"missing:encrypted_data", "missing:nonce", "missing:salt", "missing:version"}
Modifications == ByteModifications \cup Removals \cup {"truncated", "reencoded", "version"}
FileModifications == {"deleted", "garbled", "emptied"}

Damaged(ciphertext) == <<"damaged", ciphertext[2], ciphertext[3], ciphertext[4]>>
Another(S, x) == CHOOSE y \in S : y # x
Rewritten(bytes, form) == JStr(<<"base64", bytes, form>>)

Modified(envelope, m) ==
    CASE m = "intact" -> envelope
      [] m = "ciphertext" ->
            JDict(DictPut(envelope[2], "encrypted_data",
                          Rewritten(Damaged(envelope[2].encrypted_data[2][2]), "canonical")))
      [] m = "nonce" ->
            JDict(DictPut(envelope[2], "nonce",
                          Rewritten(Another(Nonces, envelope[2].nonce[2][2]), "canonical")))
      [] m = "salt" ->
            JDict(DictPut(envelope[2], "salt",
                          Rewritten(Another(Salts, envelope[2].salt[2][2]), "canonical")))
      [] m = "truncated" ->
            JDict(DictPut(envelope[2], "encrypted_data",
                          Rewritten(envelope[2].encrypted_data[2][2], "truncated")))
      [] m = "reencoded" ->
            JDict(DictPut(envelope[2], "encrypted_data",
                          Rewritten(envelope[2].encrypted_data[2][2], "lenient")))
      [] m = "version" -> JDict(DictPut(envelope[2], "version", JStr("2.0")))
      [] m = "missing:encrypted_data" -> JDict(DictPop(envelope[2], "encrypted_data"))
      [] m = "missing:nonce" -> JDict(DictPop(envelope[2], "nonce"))
      [] m = "missing:salt" -> JDict(DictPop(envelope[2], "salt"))
      [] m = "missing:version" -> JDict(DictPop(envelope[2], "version"))

\* What can happen to the members of an unencrypted file between save and
\* load: the value of a member changes, a member is taken out or put in.
DataKeys(json) == DOMAIN json[2] \ {"_integrity_hash"}
FieldTamperings(json) ==
    {"changed:" \o k : k \in DataKeys(json)} \cup {"huge:" \o k : k \in DataKeys(json)}
        \cup {"removed:" \o k : k \in DataKeys(json)}
        \cup {"added:" \o k : k \in {"a", "b"} \ DataKeys(json)}
TagTamperings == {"tag:changed", "tag:removed"}
Tamperings(json) == FieldTamperings(json) \cup TagTamperings

OtherValue(v) == IF v = JStr("b") THEN JStr("a") ELSE JStr("b")
AnotherTag == <<"hmac-sha256", <<"another">>, <<>>>>

TamperedData(data, m) ==
    IF m \in {"removed:" \o k : k \in DOMAIN data}
    THEN [x \in {k \in DOMAIN data : m # "removed:" \o k} |-> data[x]]
    ELSE IF m \in {"added:" \o k : k \in {"a", "b"}}
    THEN DictPut(data, CHOOSE k \in {"a", "b"} : m = "added:" \o k, JStr("a"))
    ELSE [x \in DOMAIN data |->
            IF m = "changed:" \o x THEN OtherValue(data[x])
            ELSE IF m = "huge:" \o x THEN JStr(HugeString)
            ELSE data[x]]

TamperedTags(tag, m) ==
    IF m = "tag:removed" THEN <<>>
    ELSE IF m = "tag:changed" THEN <<AnotherTag>>
    ELSE <<tag>>

Tampered(json, m) ==
    UnencryptedText(TamperedData(DictPop(json[2], "_integrity_hash"), m),
                    TamperedTags(json[2]["_integrity_hash"][2], m))

ModifiedFile(d, m) ==
    CASE m = "deleted" -> None
      [] m = "garbled" -> File([d[2] EXCEPT !.json = NotJson])
      [] m = "emptied" -> File([d[2] EXCEPT !.json = NotJson, !.size = 0])
      [] m \in Tamperings(d[2].json) -> File(Tampered(d[2].json, m))
      [] OTHER -> File([d[2] EXCEPT !.json = Modified(d[2].json, m)])

NoEncCall == [fn |-> "none"]
Called(record) == <<"call", record>>

InitEnc ==
    /\ host = HostUp
    /\ heap = [r \in RegIds |-> <<>>]
    /\ IdleRun
    /\ cmpIn = NoEncCall
    /\ cmpOut = None /\ disk = None

\* FingerprintEncryption(password).encrypt(data)
Encrypt ==
    /\ cmpIn = NoEncCall
    /\ \E data \in EncDocs, password \in PasswordArgs, salt \in Salts, nonce \in Nonces :
          cmpIn' = [fn |-> "encrypt", data |-> data, password |-> password,
                    returned |->
                        IF IsReturn(FingerprintEncryption(password))
                        THEN Returned(encrypt(FingerprintEncryption(password)[2],
                                              data, salt, nonce))
                        ELSE FingerprintEncryption(password)]
    /\ UNCHANGED <<regVars, cmpOut, disk>>

\* FingerprintEncryption(password).decrypt(envelope), on the envelope that
\* encrypt returned, as it is or modified
Decrypt ==
    /\ cmpIn.fn = "encrypt" /\ IsReturn(cmpIn.returned) /\ cmpOut = None
    /\ \E password \in PasswordArgs, m \in {"intact"} \cup Modifications :
          cmpOut' = Called(
              [fn |-> "decrypt", password |-> password, modification |-> m,
               returned |->
                   IF IsReturn(FingerprintEncryption(password))
                   THEN decrypt(FingerprintEncryption(password)[2],
                                Modified(cmpIn.returned[2], m))
                   ELSE FingerprintEncryption(password)])
    /\ UNCHANGED <<regVars, cmpIn, disk>>

SaveFingerprint ==
    /\ cmpIn = NoEncCall
    /\ \E fingerprint \in EncDocs, encrypt_ \in BOOLEAN, password \in PasswordArgs,
          salt \in Salts, nonce \in Nonces, writable \in BOOLEAN :
          /\ cmpIn' = [fn |-> "save_fingerprint", data |-> fingerprint,
                       encrypt |-> encrypt_, password |-> password,
                       modification |-> "intact", writable |-> writable,
                       returned |-> save_fingerprint(disk, fingerprint, encrypt_, password,
                                                     salt, nonce, writable).returned]
          /\ disk' = save_fingerprint(disk, fingerprint, encrypt_, password,
                                      salt, nonce, writable).disk
    /\ UNCHANGED <<regVars, cmpOut>>

\* Something else changes or removes the saved file.
Corrupt ==
    /\ cmpIn.fn = "save_fingerprint" /\ cmpIn.returned /\ cmpOut = None
    /\ cmpIn.modification = "intact"
    /\ \E m \in FileModifications
                  \cup (IF cmpIn.encrypt THEN Modifications ELSE Tamperings(disk[2].json)) :
          /\ disk' = ModifiedFile(disk, m)
          /\ cmpIn' = [cmpIn EXCEPT !.modification = m]
    /\ UNCHANGED <<regVars, cmpOut>>

LoadFingerprint ==
    /\ cmpIn.fn = "save_fingerprint" /\ cmpOut = None
    /\ \E encrypted \in BOOLEAN, password \in PasswordArgs :
          cmpOut' = Called(
              [fn |-> "load_fingerprint", encrypted |-> encrypted, password |-> password,
               returned |-> load_fingerprint(disk, encrypted, password).returned,
               log |-> load_fingerprint(disk, encrypted, password).log])
    /\ UNCHANGED <<regVars, cmpIn, disk>>

NextEnc == Encrypt \/ Decrypt \/ SaveFingerprint \/ Corrupt \/ LoadFingerprint

SpecEnc == InitEnc /\ [][NextEnc]_vars

Decrypted == cmpOut # None /\ cmpOut[2].fn = "decrypt"
LoadedBack == cmpOut # None /\ cmpOut[2].fn = "load_fingerprint"
\* load_fingerprint(encrypted=True) of a file save_fingerprint(encrypt=True) wrote
LoadedEncrypted == LoadedBack /\ cmpOut[2].encrypted /\ cmpIn.encrypt /\ cmpIn.returned
SamePassword == cmpOut[2].password = cmpIn.password

\* C19 as stated: decrypt(encrypt(d)) under the same password returns d for
\* every salt and nonce, and load_fingerprint(encrypted=True, password=p) of
\* the file save_fingerprint(d, encrypt=True, password=p) wrote returns d.
C19_RoundTrip ==
    /\ (Decrypted /\ SamePassword /\ cmpOut[2].modification = "intact")
          => cmpOut[2].returned = Returned(cmpIn.data)
    /\ (LoadedEncrypted /\ SamePassword /\ cmpIn.modification = "intact")
          => cmpOut[2].returned = cmpIn.data

\* C19, amended: decrypt(encrypt(d)) under the same password returns d for
\* every salt and nonce; load_fingerprint of the file save_fingerprint wrote
\* returns d when the file is at most safe_read_file's max_size (10 MiB)
\* long, and None when it is longer.
C19_RoundTripWithinReadLimit ==
    /\ (Decrypted /\ SamePassword /\ cmpOut[2].modification = "intact")
          => cmpOut[2].returned = Returned(cmpIn.data)
    /\ (LoadedEncrypted /\ SamePassword /\ cmpIn.modification = "intact")
          => cmpOut[2].returned =
                IF disk[2].size <= safe_read_max_size THEN cmpIn.data ELSE None

\* A nested document saved encrypted and loaded back under the same password.
C19_Witness ==
    /\ LoadedEncrypted /\ SamePassword /\ cmpIn.modification = "intact"
    /\ cmpIn.data = JDict([a |-> JInt(-12), b |-> JList(<<JStr("[]"), JNone>>)])
    /\ cmpOut[2].returned = cmpIn.data
    /\ disk[2].json[2].nonce = JStr(b64encode("n2"))

DecryptionFailures ==
    {DecryptionFailed([msg |-> c]) :
        c \in {"", "Incorrect padding", "'encrypted_data'", "'nonce'", "'salt'"}}

WrongPassword == ~Falsy(cmpOut[2].password) /\ ~SamePassword

\* C20 as stated: for a wrong password, a modified ciphertext, nonce or salt,
\* or an envelope with a missing field, decrypt raises the decryption-failure
\* error and load_fingerprint(encrypted=True) returns None.
C20_AllOrNothing ==
    /\ (Decrypted /\ ~Falsy(cmpOut[2].password)
          /\ (WrongPassword \/ cmpOut[2].modification \in ByteModifications \cup Removals))
          => cmpOut[2].returned \in DecryptionFailures
    /\ (LoadedEncrypted
          /\ (~SamePassword \/ cmpIn.modification \in ByteModifications \cup Removals))
          => cmpOut[2].returned = None

\* C20, amended: for a wrong password, a modified ciphertext, nonce or salt,
\* a truncated ciphertext text, or an envelope without one of the members
\* decrypt reads (encrypted_data, nonce, salt), decrypt raises the
\* decryption-failure error and load_fingerprint(encrypted=True) returns
\* None; the version member is not read, so an envelope without it decrypts;
\* and whatever document decrypt or load_fingerprint returns is the document
\* that was encrypted, never a partial or different one.
C20_FailsClosed ==
    /\ (Decrypted /\ ~Falsy(cmpOut[2].password)
          /\ (\/ WrongPassword
              \/ cmpOut[2].modification \in ByteModifications \cup {"truncated"}
              \/ cmpOut[2].modification \in {"missing:" \o f : f \in ReadFields}))
          => cmpOut[2].returned \in DecryptionFailures
    /\ (LoadedEncrypted
          /\ (\/ ~SamePassword
              \/ cmpIn.modification \in ByteModifications \cup {"truncated"}
              \/ cmpIn.modification \in {"missing:" \o f : f \in ReadFields}))
          => cmpOut[2].returned = None
    /\ (Decrypted /\ IsReturn(cmpOut[2].returned)) => cmpOut[2].returned[2] = cmpIn.data
    /\ (Decrypted /\ ~IsReturn(cmpOut[2].returned)) => cmpOut[2].returned[2].cls = "ValueError"
    /\ (LoadedEncrypted /\ cmpOut[2].returned # None) => cmpOut[2].returned = cmpIn.data

\* The right password on an envelope whose ciphertext was modified: decrypt
\* raised the decryption-failure error.
C20_Witness ==
    /\ Decrypted /\ SamePassword /\ cmpOut[2].modification = "ciphertext"
    /\ cmpIn.data = JDict([a |-> JStr("a")])
    /\ cmpOut[2].returned = DecryptionFailed([msg |-> ""])

SavedEncrypted == cmpIn.fn = "save_fingerprint" /\ cmpIn.encrypt

\* C21: FingerprintEncryption with an empty or absent password raises the
\* validation error, so encrypt produces no envelope under any key; and
\* save_fingerprint(encrypt=True) without a password returns False and the
\* target file is not written, whether or not the file system would take
\* the write.  load_fingerprint(encrypted=True) without a password returns
\* None.
C21_PasswordMandatory ==
    /\ (cmpIn.fn = "encrypt" /\ Falsy(cmpIn.password))
          => /\ ~IsReturn(cmpIn.returned)
             /\ cmpIn.returned[2].cls = "ValueError"
    /\ (Decrypted /\ Falsy(cmpOut[2].password))
          => /\ ~IsReturn(cmpOut[2].returned)
             /\ cmpOut[2].returned[2].cls = "ValueError"
    /\ (SavedEncrypted /\ Falsy(cmpIn.password))
          => ~cmpIn.returned /\ disk = None
    /\ (SavedEncrypted /\ ~Falsy(cmpIn.password) /\ cmpIn.writable) => cmpIn.returned

\* save_fingerprint(encrypt=True) was called with no password on a file
\* system that takes writes: it returned False and there is no file.
C21_Witness ==
    /\ SavedEncrypted /\ cmpIn.password = JNone /\ cmpIn.writable
    /\ ~cmpIn.returned /\ disk = None

\* load_fingerprint(encrypted=False) of a file save_fingerprint(encrypt=False) wrote
LoadedPlain == LoadedBack /\ ~cmpOut[2].encrypted /\ ~cmpIn.encrypt /\ cmpIn.returned
\* the password of save and of load selects the same HMAC key
SameIntegrityKey ==
    \/ SamePassword
    \/ Falsy(cmpOut[2].password) /\ Falsy(cmpIn.password)
\* a member of the saved file was tampered with (the file is still JSON)
MemberTampered == cmpIn.modification \notin {"intact"} \cup FileModifications
IntegrityWarning == <<"Integrity check failed - data may be corrupted">>
WithoutTag(json) == JDict(DictPop(json[2], "_integrity_hash"))
\* the file is one that safe_read_file and validate_json_safe let through
WithinLimits(d) ==
    /\ d[2].size <= safe_read_max_size
    /\ d[2].braces <= max_nesting /\ d[2].brackets <= max_nesting

\* C22 as stated: after save_fingerprint(d, encrypt=False), with any member
\* of the saved file tampered with, load_fingerprint under the password of
\* the save logs the integrity warning and returns the tampered document
\* without its _integrity_hash member.
C22_TamperNonFatal ==
    (LoadedPlain /\ SameIntegrityKey /\ MemberTampered)
        => /\ cmpOut[2].log = IntegrityWarning
           /\ cmpOut[2].returned = WithoutTag(disk[2].json)

\* C22, amended: with a data member of the saved file changed, removed or
\* added, or the value of the _integrity_hash member changed, and the file
\* still one that the read limits let through, load_fingerprint under the
\* password of the save logs the integrity warning and returns the tampered
\* document without its _integrity_hash member; with the _integrity_hash
\* member removed it returns the document and logs nothing; and for a file
\* over the read limits it returns None.
C22_TamperWarnedWhenTagPresent ==
    (LoadedPlain /\ SameIntegrityKey /\ MemberTampered)
        => IF ~WithinLimits(disk)
           THEN cmpOut[2].returned = None
           ELSE /\ cmpOut[2].returned = WithoutTag(disk[2].json)
                /\ cmpOut[2].log =
                      IF cmpIn.modification = "tag:removed" THEN <<>> ELSE IntegrityWarning

\* The value of member a of a saved document was changed: the load under the
\* password of the save warned and returned the changed document.
C22_Witness ==
    /\ LoadedPlain /\ cmpIn.password = JStr("p") /\ cmpOut[2].password = JStr("p")
    /\ cmpIn.modification = "changed:a"
    /\ cmpIn.data = JDict([a |-> JStr("a")])
    /\ cmpOut[2].returned = JDict([a |-> JStr("b")])
    /\ cmpOut[2].log = IntegrityWarning

HasOwnTag(data) == "_integrity_hash" \in DOMAIN data[2]

\* C23 as stated: load_fingerprint(password=p) of the unmodified file that
\* save_fingerprint(d, encrypt=False, password=p) wrote returns d, without an
\* _integrity_hash member, and logs no integrity warning.
C23_UnencryptedRoundTrip ==
    (LoadedPlain /\ SamePassword /\ cmpIn.modification = "intact")
        => /\ cmpOut[2].returned = cmpIn.data
           /\ ~HasOwnTag(cmpOut[2].returned)
           /\ cmpOut[2].log = <<>>

\* C23, amended: load_fingerprint(password=p) of the unmodified file that
\* save_fingerprint(d, encrypt=False, password=p) wrote returns None when the
\* file is over the read limits (10 MiB, 1000 opening braces, 1000 opening
\* brackets); otherwise it returns d without an _integrity_hash member, and
\* logs no integrity warning unless d had an _integrity_hash member of its
\* own, which the save replaced.
C23_RoundTripWithinReadLimits ==
    (LoadedPlain /\ SamePassword /\ cmpIn.modification = "intact")
        => IF ~WithinLimits(disk)
           THEN cmpOut[2].returned = None
           ELSE /\ cmpOut[2].returned = WithoutTag(cmpIn.data)
                /\ ~HasOwnTag(cmpOut[2].returned)
                /\ cmpOut[2].log = IF HasOwnTag(cmpIn.data) THEN IntegrityWarning ELSE <<>>

\* A nested document saved under a password and loaded back under it.
C23_Witness ==
    /\ LoadedPlain /\ cmpIn.password = JStr("p") /\ cmpOut[2].password = JStr("p")
    /\ cmpIn.modification = "intact"
    /\ cmpIn.data = JDict([a |-> JInt(-12), b |-> JList(<<JStr("[]"), JNone>>)])
    /\ cmpOut[2].returned = cmpIn.data
    /\ cmpOut[2].log = <<>>

\* x and y differ at most in the order of the elements of lists that are
\* the value itself or are reached through mapping keys only
(***************************************************************************)
(* compare_fingerprints applied to pairs of documents whose collector      *)
(* values are lists, and mappings leading to lists, in several orders.     *)
(***************************************************************************)
OrderData(name) ==
    CASE name = "SSHConfigCollector" ->
            {JDict([a |-> JDict([b |-> JList(<<JInt(1), JStr("a")>>)])]),
             JDict([a |-> JDict([b |-> JList(<<JStr("a"), JInt(1)>>)])]),
             JDict([a |-> JDict([b |-> JList(<<JStr("a")>>)])])}
      [] name = "KernelExtensionsCollector" ->
            {JList(<<JList(<<JInt(1), JStr("a")>>)>>), JList(<<JList(<<JStr("a"), JInt(1)>>)>>)}
      [] name = "InstalledAppsCollector" ->
            {JList(<<JStr("a"), JStr("b")>>), JList(<<JStr("b"), JStr("a")>>),
             JList(<<JStr("a"), JStr("b"), JStr("a")>>)}

OrderCollectors ==
    UNION {{f \in [K -> UNION {OrderData(n) : n \in K}] : \A n \in K : f[n] \in OrderData(n)} :
             K \in SUBSET FpNames}

OrderDocs == {FpDoc(f) : f \in OrderCollectors}

InitOrder ==
    /\ host = HostUp
    /\ heap = [r \in RegIds |-> <<>>]
    /\ IdleRun
    /\ cmpOut = None /\ disk = None
    /\ \E b \in OrderDocs, c \in OrderDocs, ig \in {None, <<"KernelExtensionsCollector">>} :
          cmpIn = FpCall(b, c, ig)

NextOrder == CompareFingerprints

SpecOrder == InitOrder /\ [][NextOrder]_vars

Occurs(e, xs) == Cardinality({i \in DOMAIN xs : xs[i] = e})
RECURSIVE SameUpToListOrder(_, _)
SameUpToListOrder(x, y) ==
    IF IsList(x) /\ IsList(y)
    THEN /\ Len(x[2]) = Len(y[2])
         /\ \A e \in Range(x[2]) \cup Range(y[2]) : Occurs(e, x[2]) = Occurs(e, y[2])
    ELSE IF IsDict(x) /\ IsDict(y)
    THEN /\ DOMAIN x[2] = DOMAIN y[2]
         /\ \A k \in DOMAIN x[2] : SameUpToListOrder(x[2][k], y[2][k])
    ELSE x = y

\* the collectors of both documents whose values are unequal and differ in
\* list order only
Reordered ==
    {n \in DOMAIN CollectorsIn(cmpIn.baseline) \cap DOMAIN CollectorsIn(cmpIn.current) :
        /\ CollectorsIn(cmpIn.baseline)[n] # CollectorsIn(cmpIn.current)[n]
        /\ SameUpToListOrder(CollectorsIn(cmpIn.baseline)[n], CollectorsIn(cmpIn.current)[n])}

\* C24: a collector whose baseline and current values are unequal but differ
\* only in the order of the elements of lists (the value itself, or lists
\* reached through mapping keys) gets no change entry, and the summary counts
\* only the entries of the other collectors.
C24_ReorderIsNoChange ==
    Compared("compare_fingerprints") =>
        /\ Reordered \cap DOMAIN FpChanges = {}
        /\ FpSummary.total_changes = JInt(Cardinality(DOMAIN FpChanges \ Reordered))
        /\ \A s \in Severities :
              FpSummary[s] = JInt(Cardinality({k \in DOMAIN FpChanges \ Reordered :
                                                 FpChanges[k][2].severity = JStr(s)}))

\* A top-level list and a list two mapping keys down are both reordered, and
\* the comparison reports nothing.
C24_Witness ==
    /\ Compared("compare_fingerprints")
    /\ cmpIn.ignore_collectors = None
    /\ Reordered = {"SSHConfigCollector", "InstalledAppsCollector"}
    /\ DOMAIN CollectorsIn(cmpIn.baseline) = {"SSHConfigCollector", "InstalledAppsCollector"}
    /\ DOMAIN FpChanges = {}
    /\ FpSummary.total_changes = JInt(0)

\* the lists that hold the elements of xs in some order
Reorderings(xs) ==
    {[i \in DOMAIN xs |-> xs[p[i]]] :
        p \in {q \in [DOMAIN xs -> DOMAIN xs] : \A i, j \in DOMAIN xs : q[i] = q[j] => i = j}}

\* non-decreasing in the elements' str()
SortedByStr(xs) ==
    \A i, j \in DOMAIN xs : i < j => ~LexLess(py_str(xs[j]), py_str(xs[i]))

\* C25: the added and removed lists of compare_lists are sorted by the string
\* representation of their elements, and compare_lists returns the same two
\* lists for every reordering of baseline and of current (and whatever order
\* the set of keys is iterated in).
C25_OrderIndependent ==
    Compared("compare_lists") =>
        /\ SortedByStr(cmpOut[2].added[2]) /\ SortedByStr(cmpOut[2].removed[2])
        /\ \A b \in Reorderings(cmpIn.baseline), c \in Reorderings(cmpIn.current),
              it \in IterationOrders : compare_lists(b, c, it) = cmpOut

InParallelRun == InCall /\ call.parallel /\ PoolAlive

\* The step is the main thread taking the outcome of finished task i and
\* writing it under a name the map does not hold yet.
MainThreadWrites(i) ==
    /\ pc = "par" /\ submitted = total
    /\ task[i] = "finished" /\ task' = [task EXCEPT ![i] = "harvested"]
    /\ items[i].name \notin DOMAIN results
    /\ DOMAIN results' = DOMAIN results \cup {items[i].name}
    /\ \A n \in DOMAIN results : results'[n] = results[n]

\* C26: in a parallel collect_all every write to the results map is made by
\* the main thread, which takes one finished task at a time, so no two
\* threads write it at once; each collector name is written exactly once;
\* and on return the keys of the map are the names of the collectors that
\* were registered when collect_all was called.
C26_SingleWriter ==
    /\ [][(InParallelRun /\ results' # results) =>
             \E i \in DOMAIN items : MainThreadWrites(i)]_vars
    /\ [](InParallelRun =>
             DOMAIN results = {items[i].name : i \in {j \in DOMAIN items :
                                                        task[j] = "harvested"}})
    /\ []((call.fn = "collect_all" /\ call.parallel /\ pc = "returned") =>
             /\ DOMAIN results = Names(call.pre)
             /\ Cardinality(DOMAIN results) = Len(call.pre))

\* A parallel collect_all over two collectors returned after both workers
\* were in their callbacks before either collected.
C26_Witness ==
    /\ call.fn = "collect_all" /\ call.parallel /\ pc = "returned"
    /\ call.max_workers = 2 /\ Len(call.pre) = 2
    /\ events[1] = CbEvent(2) /\ events[2] = CbEvent(1)
    /\ DOMAIN results = Names(call.pre)

(***************************************************************************)
(* The registry changes while collect_all runs: register, unregister and   *)
(* clear are called on the registry of the run by another thread, by a     *)
(* collector or by the progress callback, between any two steps of the     *)
(* run.                                                                    *)
(***************************************************************************)
Running == pc \in {"seq", "par", "unwinding"}

\* self._collectors[collector.name] = collector
register_during_run(c) ==
    /\ Running
    /\ c.name \in Names(heap[Cell(call.reg)]) \/ Len(heap[Cell(call.reg)]) < MaxCollectors
    /\ heap' = [heap EXCEPT ![Cell(call.reg)] = dict_set(@, c)]
    /\ lastOp' = OpRec("register", call.reg, c, heap[Cell(call.reg)])
    /\ UNCHANGED <<host, runVars, cmpVars>>

\* if name in self._collectors: del self._collectors[name]
unregister_during_run(name) ==
    /\ Running
    /\ heap' = [heap EXCEPT ![Cell(call.reg)] = dict_del(@, name)]
    /\ lastOp' = OpRec("unregister", call.reg, JStr(name), heap[Cell(call.reg)])
    /\ UNCHANGED <<host, runVars, cmpVars>>

\* self._collectors.clear()
clear_during_run ==
    /\ Running
    /\ heap' = [heap EXCEPT ![Cell(call.reg)] = <<>>]
    /\ lastOp' = OpRec("clear", call.reg, None, heap[Cell(call.reg)])
    /\ UNCHANGED <<host, runVars, cmpVars>>

\* An instance registered under the name of another class's collector.
Impostor == Collector("InstalledAppsCollector", "BrokenCollector", 2)
LiveCollectors == {Apps(1), Kext(1), Interrupted(1)}

InitLive ==
    /\ host = HostUp
    /\ \E d \in Dicts(LiveCollectors) :
          heap = [r \in RegIds |-> IF r = "reg_a" THEN d ELSE <<>>]
    /\ IdleRun
    /\ NoCmp

NextLive ==
    \/ \E parallel \in BOOLEAN, k \in 1..MaxWorkers : collect_all("reg_a", parallel, k, "ok")
    \/ \E c \in {Impostor, Kext(1)} : register_during_run(c)
    \/ \E n \in {"InstalledAppsCollector", "KernelExtensionsCollector"} :
          unregister_during_run(n)
    \/ clear_during_run
    \/ Steps
    \/ Done(FALSE)

SpecLive == InitLive /\ [][NextLive]_vars

RegistryChanged == heap[Cell(call.reg)] # call.pre

\* C27: a run works on the collectors registered when collect_all was
\* called: whatever register, unregister and clear do to the registry during
\* the run, the callback is invoked with the names, positions and total of
\* that set, only collectors of that set are invoked, and the returned map
\* holds, under each name of that set, the outcome of the instance that was
\* registered at the call.
C27_SnapshotAtCall ==
    (call.fn = "collect_all") =>
        /\ items = call.pre
        /\ \A p \in DOMAIN events :
              \E i \in DOMAIN call.pre :
                  \/ events[p] = <<"cb", call.pre[i].name, i - 1, Len(call.pre)>>
                  \/ events[p] = <<"collect", call.pre[i].name>>
        /\ \A i \in DOMAIN call.pre :
              Cardinality(Positions(<<"collect", call.pre[i].name>>))
                  = IF task[i] \in {"finished", "harvested"} THEN 1 ELSE 0
        /\ pc = "returned" =>
              /\ DOMAIN results = Names(call.pre)
              /\ \A i \in DOMAIN call.pre :
                    results[call.pre[i].name] = safe_collect(call.pre[i], host)[2]

\* A parallel run over two collectors returned both outcomes although the
\* registry was cleared before the first collector was invoked and the name
\* of one of them was registered again, for another instance, afterwards.
C27_Witness ==
    /\ call.fn = "collect_all" /\ call.parallel /\ pc = "returned"
    /\ Names(call.pre) = {"InstalledAppsCollector", "KernelExtensionsCollector"}
    /\ heap[Cell(call.reg)] = <<Impostor>>
    /\ lastOp.op = "register"
    /\ DOMAIN results = Names(call.pre)
    /\ results["InstalledAppsCollector"].success

\* Every collect() and every callback invocation terminates, and the threads
\* of the run are scheduled: a run that can take a step takes one.
SpecRunFair == SpecRun /\ WF_vars(Steps)

\* C28: under that assumption a collect_all that was called ends, in both
\* modes and for every max_workers >= 1, also with fewer workers than
\* collectors; and once a parallel collect_all has ended no collector is
\* queued or running.
C28_Terminates ==
    /\ InCall ~> Finished
    /\ []((InCall /\ call.parallel /\ Finished) =>
             \A i \in DOMAIN items : task[i] \in {"finished", "harvested"})
    /\ []((InCall /\ pc = "returned") =>
             \A i \in DOMAIN items : task[i] = "harvested")

\* A parallel run of two collectors on a pool of one worker has returned.
C28_Witness ==
    /\ pc = "returned" /\ call.parallel /\ call.max_workers = 1
    /\ total = 2
    /\ \A i \in DOMAIN items : task[i] = "harvested"

(***************************************************************************)
(* Runs with a progress callback that returns, that raises an Exception,   *)
(* or that raises a KeyboardInterrupt.                                     *)
(***************************************************************************)
CallbackCollectors == {Apps(1), Kext(1), Broken(1)}

InitCb ==
    /\ host = HostUp
    /\ \E d \in Dicts(CallbackCollectors) :
          heap = [r \in RegIds |-> IF r = "default_registry" THEN d ELSE <<>>]
    /\ IdleRun
    /\ NoCmp

NextCb ==
    \/ \E parallel \in BOOLEAN, k \in 1..MaxWorkers,
          cb \in CbKinds \cup {"interrupting"} :
          collect_all("default_registry", parallel, k, cb)
    \/ Steps
    \/ Done(FALSE)

SpecCb == InitCb /\ [][NextCb]_vars

\* every collector of the run was invoked once and the map holds its outcome
AllCollected ==
    /\ DOMAIN results = Names(items)
    /\ \A i \in DOMAIN items :
          /\ results[items[i].name] = IsolatedOutcome(i)
          /\ Cardinality(Positions(CollectEvent(i))) = 1

\* C29 as stated: whatever the progress callback throws, collect_all does
\* not raise, and it returns with every collector invoked and its outcome
\* recorded, in both modes.
C29_CallbackFailureSwallowed ==
    (InCall /\ call.progress_callback \in {"raising", "interrupting"}) =>
        /\ ~Aborted
        /\ pc = "returned" => AllCollected

\* C29, amended: an exception derived from Exception thrown by the progress
\* callback is swallowed: collect_all does not raise, and it returns with
\* every collector invoked once and its outcome recorded, as with a callback
\* that succeeds.  An exception not derived from Exception (KeyboardInterrupt,
\* SystemExit) thrown by the callback is not swallowed: the collector it was
\* called for is not invoked and collect_all raises it, in both modes.
C29_CallbackExceptionSwallowed ==
    InCall =>
        /\ call.progress_callback \in {"ok", "raising"} =>
              /\ ~Aborted
              /\ pc = "returned" => AllCollected
        /\ (call.progress_callback = "interrupting" /\ total > 0) =>
              /\ Finished => (pc = "raised" /\ ret = Raised("KeyboardInterrupt", ""))
              /\ \A i \in DOMAIN items :
                    Positions(CbEvent(i)) # {} => Positions(CollectEvent(i)) = {}

\* A parallel run with a callback that raises an Exception returned the
\* outcomes of both collectors, one of them a failure of its own.
C29_Witness ==
    /\ pc = "returned" /\ call.parallel /\ call.progress_callback = "raising"
    /\ total = 2 /\ AllCollected
    /\ Throwers # {}
    /\ Cardinality(Positions(CbEvent(1))) = 1

(***************************************************************************)
(* compare_fingerprints applied to a pair of documents and to the pair     *)
(* hash_fingerprint_data makes of them.  The documents range over the      *)
(* three collectors that have a hasher; every sensitive field holds        *)
(* strings, and a collector's entry may be the error record                *)
(* create_fingerprint stores for a failed collector.                       *)
(***************************************************************************)
OtherErrorRecord == JDict([error |-> JStr("b")])

DriftNames == {"NetworkConfigCollector", "SSHConfigCollector", "HostsFileCollector"}

DriftData(name) ==
    CASE name = "NetworkConfigCollector" ->
            {JDict([ip_addresses |-> JDict([a |-> JStr("1")]),
                    arp_cache |-> JList(<<JStr("a"), JStr("")>>)]),
             JDict([ip_addresses |-> JDict([a |-> JStr("b")]),
                    arp_cache |-> JList(<<JStr(""), JStr("a")>>)]),
             ErrorRecord}
      [] name = "SSHConfigCollector" ->
            {JDict([known_hosts |-> JList(<<JStr("a"), JStr("b")>>)]),
             JDict([known_hosts |-> JList(<<JStr("b"), JStr("a")>>)]),
             JDict([known_hosts |-> JList(<<JStr("a")>>)])}
      [] name = "HostsFileCollector" ->
            {JList(<<JStr("#c"), JStr("1"), JStr("")>>),
             JList(<<JStr("1"), JStr("#c"), JStr("")>>),
             JList(<<JStr("#c"), JStr("a"), JStr("")>>),
             JList(<<JStr("error")>>),
             ErrorRecord, OtherErrorRecord}

DriftCollectors ==
    UNION {{f \in [K -> UNION {DriftData(n) : n \in K}] : \A n \in K : f[n] \in DriftData(n)} :
             K \in SUBSET DriftNames}

DriftDocs == {FpDoc(f) : f \in DriftCollectors}

DriftCall(baseline, current) ==
    [fn |-> "compare_redacted", baseline |-> baseline, current |-> current]

InitDrift ==
    /\ host = HostUp
    /\ heap = [r \in RegIds |-> <<>>]
    /\ IdleRun
    /\ cmpOut = None /\ disk = None
    /\ \E b \in DriftDocs, c \in DriftDocs : cmpIn = DriftCall(b, c)

\* The two comparisons a caller makes of the same pair of documents: as
\* collected, and as hash_fingerprint_data returns them.
CompareRedacted ==
    /\ cmpIn.fn = "compare_redacted" /\ cmpOut = None
    /\ \E now \in Clock, it \in IterationOrders :
          cmpOut' = <<"pair",
                      compare_fingerprints(cmpIn.baseline, cmpIn.current, None, now, it),
                      compare_fingerprints(hash_fingerprint_data(cmpIn.baseline),
                                           hash_fingerprint_data(cmpIn.current),
                                           None, now, it)>>
    /\ UNCHANGED <<regVars, cmpIn, disk>>

NextDrift == CompareRedacted

SpecDrift == InitDrift /\ [][NextDrift]_vars

PlainChanges == cmpOut[2][2].changes[2]
RedactedChanges == cmpOut[3][2].changes[2]
HostsErrorRecord(d) ==
    "HostsFileCollector" \in DOMAIN CollectorsIn(d) /\ IsDict(CollectorsIn(d)["HostsFileCollector"])

\* C30: redaction neither hides nor invents drift: for documents whose
\* sensitive fields hold strings and for every collector name,
\* compare_fingerprints of the redacted documents has a change entry for the
\* name exactly when compare_fingerprints of the documents themselves has
\* one, and the two entries have the same type and the same severity.
C30_RedactionKeepsDrift ==
    Compared("compare_redacted") =>
        \A n \in DriftNames :
            /\ n \in DOMAIN RedactedChanges <=> n \in DOMAIN PlainChanges
            /\ n \in DOMAIN PlainChanges =>
                  /\ RedactedChanges[n][2].type = PlainChanges[n][2].type
                  /\ RedactedChanges[n][2].severity = PlainChanges[n][2].severity

\* The same statement on the documents whose HostsFileCollector entry is a
\* list of lines or absent.
RedactionKeepsDriftOfLines ==
    (Compared("compare_redacted") /\ ~HostsErrorRecord(cmpIn.baseline)
                                  /\ ~HostsErrorRecord(cmpIn.current)) =>
        \A n \in DriftNames :
            /\ n \in DOMAIN RedactedChanges <=> n \in DOMAIN PlainChanges
            /\ n \in DOMAIN PlainChanges =>
                  /\ RedactedChanges[n][2].type = PlainChanges[n][2].type
                  /\ RedactedChanges[n][2].severity = PlainChanges[n][2].severity
====
